---- MODULE Spec2Model ----
(* Vote-and-karma update protocol and community membership protocol of the   *)
(* NeuroNest client (src/src/App.tsx), and the submission protocol of its    *)
(* CreatePostModal (src/unnamed/part_001), against the tables, constraints   *)
(* and policies of the database schema (src/unnamed/part_000); and the       *)
(* sign-up, sign-in and verification calls of AuthProvider with their        *)
(* client-side validation and rate limiting (src/src/utils/validation.ts).   *)
(* Further specifications cover the session state of AuthProvider, the      *)
(* RateLimiter on its own, the name field of CreateCommunityModal with       *)
(* sanitizeInput and generateSlug, and signUp against auth.users and         *)
(* public.profiles.                                                          *)
(* Every backend call is its own round trip; the backend executes one        *)
(* request atomically, the client never spans two.                           *)
(* A request is refused only by the schema: a constraint raises an error, an *)
(* update policy matches no row.  Transport failures are outside the model.  *)
EXTENDS Integers, Sequences, FiniteSets, TLC

(* ---------------------------------------------------------------- bounds *)
\* total number of handleVote invocations by signed-in users in one behaviour
MaxCalls == 2
\* number of handleVote invocations with a request outstanding at one time
MaxInFlight == 2
\* total number of joinCommunity invocations by signed-in users in one behaviour
MaxJoins == 2
\* total number of CreatePostModal submissions in one behaviour
MaxSubmits == 2
\* number of users who use their CreatePostModal in one behaviour
MaxPosters == 1
\* total number of handler invocations (handleVote, joinCommunity, a used
\* CreatePostModal and each of its submissions) in one behaviour of the three
\* flows running side by side
MaxClientCalls == 1
\* number of announced sessions not yet delivered plus fetchProfile requests
\* not yet answered at one time, beside the getSession() of the mount effect
MaxPending == 2
\* number of characters typed into an input field, one key at a time
MaxTyped == 3
\* total number of recordAttempt calls in one behaviour of the limiters alone
MaxRecorded == 4
\* total number of signUp, signIn, resendVerification and signOut calls that
\* reach the backend in one behaviour
MaxAuthCalls == 4
\* number of signUp calls, over all browsers, that pass validation in one
\* behaviour of the sign-up backend
MaxSignups == 2

(* ------------------------------------------------------------- constants *)
\* profiles.total_karma integer DEFAULT 0
InitKarma == 0

\* signed-in accounts; "admin" is the account named by the admin policies
Users == {"alice", "admin", "bob"}
AdminUser == "admin"
\* browser tabs: one per signed-in account and one without a session
Guest == "guest"
Clients == Users \cup {Guest}

\* rows of public.posts (id, author_id); posts are not created in this flow
PostsTable == {[id |-> "p1", author_id |-> "alice"]}
PostIds == {r.id : r \in PostsTable}
AuthorOf(postId) == (CHOOSE r \in PostsTable : r.id = postId).author_id

\* rows of public.communities (id, owner_id); created before this flow
CommunitiesTable == {[id |-> "c1", owner_id |-> "alice"]}
CommunityIds == {r.id : r \in CommunitiesTable}
OwnerOf(communityId) == (CHOOSE r \in CommunitiesTable : r.id = communityId).owner_id

\* member_count: 1 in the insert of CreateCommunityModal (the creator's own
\* membership row is inserted right after)
InitMemberCount == 1

\* post_count integer DEFAULT 0
InitPostCount == 0

\* what the title and content inputs hold: nothing, text that the checks
\* title_length / content_length reject, or text that they accept
Texts == {"", "short", "ok"}

\* useState({ title: '', content: '', post_type: 'discussion', community_id: '', tags: '' })
EmptyForm == [text |-> "", community_id |-> ""]

\* session?.user ?? null: the accounts a session can belong to, and none
NoSession == "none"
Account == "u1"
Accounts == {Account, "u2"}

\* nothing was submitted yet
NoOutcome == [op |-> "none", text |-> << >>, slug |-> << >>, res |-> "none"]

\* the keys pressed in an input field
Keys == {"a", "B", "1", " ", "-", "_", "&"}

\* community names pasted into the name field (maxLength 50): 31 letters, a
\* reserved name, a name with inner and outer spaces
PastedNames ==
  {[n \in 1..31 |-> "a"],
   <<"A", "d", "m", "i", "n", " ">>,
   <<" ", "M", "y", " ", " ", "c", "l", "u", "b", "_", "1", " ">>}

\* texts handed to sanitizeInput that are longer than its cut: 1001 letters,
\* and a text whose 1000th character is a space
PastedTexts ==
  {[n \in 1..1001 |-> "a"],
   [n \in 1..1001 |-> IF n = 1000 THEN " " ELSE "a"],
   <<" ", "<", "b", ">", " ", "x", "&", " ">>}

\* useState<Profile | null>(null)
NoProfile == "none"

\* vote_type integer CHECK (vote_type IN (-1, 1))
VoteTypes == {1, -1}

\* the null result of .single()
NoVote == [id |-> 0, user_id |-> "", post_id |-> "", vote_type |-> 0]
NoMember == [id |-> 0, community_id |-> "", user_id |-> ""]

VARIABLES
  votes,          \* public.votes: set of rows [id, user_id, post_id, vote_type]
  nextId,         \* the next fresh votes.id
  karma,          \* public.profiles.total_karma, per profile id
  posts,          \* per client: the posts state (rows with the joined author karma)
  loading,        \* per client: the loading state cleared by fetchPosts
  showAuthModal,  \* per client: the showAuthModal state
  calls,          \* the handleVote invocations made so far, in click order
  members,        \* public.community_members: set of rows [id, community_id, user_id]
  nextMemberId,   \* the next fresh community_members.id
  memberCount,    \* public.communities.member_count, per community id
  communities,    \* per client: the communities state (rows with member_count)
  jcalls,         \* the joinCommunity invocations made so far, in click order
  createdPosts,   \* rows inserted into public.posts: [id, author_id, community_id]
  postCount,      \* public.communities.post_count, per community id
  showCreatePostModal, \* per user: the showCreatePostModal state of the tab
  formData,       \* per user: the formData state of CreatePostModal
  modalLoading,   \* per user: the loading state of CreatePostModal
  modalError,     \* per user: the error state of CreatePostModal
  pcalls,         \* the handleSubmit invocations made so far, in submit order
  clock,          \* Date.now(), in minutes since the page was loaded
  limiters,       \* the attempt lists of the limiters of the latest render
  authUser,       \* the user state of AuthProvider
  authEvents,     \* sessions announced to onAuthStateChange, not yet delivered
  acalls,         \* the calls of AuthProvider's functions that reached the backend
  lastResult,     \* the value the latest finished call returned
  profile,        \* the profile state of AuthProvider: the id of the row, or none
  authLoading,    \* the loading state of AuthProvider
  profileFetches, \* per account: the fetchProfile requests not yet answered
  sessionInit,    \* the getSession() of the mount effect: "pending" or "done"
  inputText,      \* the text held by the input field in use
  submitted,      \* what the latest submission of that text produced
  authAccounts,   \* auth.users: set of rows [id, email]
  profileRows,    \* public.profiles: set of rows [id, username, email, email_verified]
  signups         \* the signUp invocations of all browsers, in call order

\* the state of the community flow, which the vote flow never touches
communityVars == <<members, nextMemberId, memberCount, communities, jcalls>>

\* the state of the post-creation flow
postVars == <<createdPosts, postCount, showCreatePostModal, formData,
              modalLoading, modalError, pcalls>>

\* the text input in use and the outcome of its submission
inputVars == <<inputText, submitted>>

\* the accounts, the profiles and the signUp calls that create them
signupVars == <<authAccounts, profileRows, signups>>

\* the session state of AuthProvider
sessionVars == <<profile, authLoading, profileFetches, sessionInit>>

\* the state of AuthProvider
authVars == <<clock, limiters, authUser, authEvents, acalls, lastResult,
              profile, authLoading, profileFetches, sessionInit>>

\* the state of the vote flow, which the community flow never touches
voteVars == <<votes, nextId, karma, posts, loading, calls>>

vars == <<votes, nextId, karma, posts, loading, showAuthModal, calls,
          members, nextMemberId, memberCount, communities, jcalls,
          createdPosts, postCount, showCreatePostModal, formData,
          modalLoading, modalError, pcalls,
          clock, limiters, authUser, authEvents, acalls, lastResult,
          profile, authLoading, profileFetches, sessionInit,
          inputText, submitted, authAccounts, profileRows, signups>>

(* ------------------------------------------------------- backend: schema *)
\* variant: the votes table without its uniqueness constraint
UniqueUserPost_Off(vs, u, p) == TRUE

\* UNIQUE(user_id, post_id) on public.votes
UniqueUserPost(vs, u, p) == \A r \in vs : ~(r.user_id = u /\ r.post_id = p)

\* variant: the profiles table without the karma check
karma_positive_Off(v) == TRUE

\* CONSTRAINT karma_positive CHECK (total_karma >= 0)
karma_positive(v) == v >= 0

\* variant: the profiles table without row-level security
CanUpdateProfile_Off(uid, profileId) == TRUE

\* policy "Users can update their own profile" or "Admin full access to profiles"
CanUpdateProfile(uid, profileId) == uid = profileId \/ uid = AdminUser

\* variant: the inserted row always carries an up-vote
InsertVote_AlwaysUp(vs, id, u, p, vt) ==
  IF UniqueUserPost(vs, u, p)
    THEN vs \cup {[id |-> id, user_id |-> u, post_id |-> p, vote_type |-> 1]}
    ELSE vs

\* insert into votes: rejected when the uniqueness constraint is violated
InsertVote(vs, id, u, p, vt) ==
  IF UniqueUserPost(vs, u, p)
    THEN vs \cup {[id |-> id, user_id |-> u, post_id |-> p, vote_type |-> vt]}
    ELSE vs

\* delete from votes where id = ...
DeleteVote(vs, id) == {r \in vs : r.id # id}

\* variant: the switch of direction adds a second row instead of updating
UpdateVote_Duplicate(vs, id, vt) ==
  vs \cup {[r EXCEPT !.id = r.id + MaxCalls + 1, !.vote_type = vt] : r \in {x \in vs : x.id = id}}

\* update votes set vote_type = ... where id = ...
UpdateVote(vs, id, vt) ==
  {IF r.id = id THEN [r EXCEPT !.vote_type = vt] ELSE r : r \in vs}

\* select * from votes where user_id = ... and post_id = ... (.single())
SelectVote(vs, u, p) ==
  IF \E r \in vs : r.user_id = u /\ r.post_id = p
    THEN CHOOSE r \in vs : r.user_id = u /\ r.post_id = p
    ELSE NoVote

\* the posts query: every post joined with its author's profile
SelectPosts(k) ==
  {[id |-> r.id, author_id |-> r.author_id, total_karma |-> k[r.author_id]] : r \in PostsTable}

\* UNIQUE(community_id, user_id) on public.community_members
UniqueCommunityUser(ms, cid, u) == \A r \in ms : ~(r.community_id = cid /\ r.user_id = u)

\* CONSTRAINT member_count_positive CHECK (member_count >= 0)
member_count_positive(v) == v >= 0

\* policy "Owners can update their communities" or "Admin full access to communities"
CanUpdateCommunity(uid, cid) == uid = OwnerOf(cid) \/ uid = AdminUser

\* insert into community_members: rejected when the uniqueness constraint is violated
InsertMember(ms, id, cid, u) ==
  IF UniqueCommunityUser(ms, cid, u)
    THEN ms \cup {[id |-> id, community_id |-> cid, user_id |-> u]}
    ELSE ms

\* delete from community_members where id = ...
DeleteMember(ms, id) == {r \in ms : r.id # id}

\* select * from community_members where community_id = ... and user_id = ... (.single())
SelectMember(ms, cid, u) ==
  IF \E r \in ms : r.community_id = cid /\ r.user_id = u
    THEN CHOOSE r \in ms : r.community_id = cid /\ r.user_id = u
    ELSE NoMember

\* the communities query: every community with its stored counters
SelectCommunities(mc, pc) ==
  {[id |-> r.id, owner_id |-> r.owner_id, member_count |-> mc[r.id], post_count |-> pc[r.id]] :
     r \in CommunitiesTable}

\* CONSTRAINT title_length / content_length on public.posts
title_length(text) == text = "ok"

\* CONSTRAINT post_count_positive CHECK (post_count >= 0)
post_count_positive(v) == v >= 0

(* ------------------------------------------------------ client: App.tsx *)
\* const karmaChange = voteType === 1 ? 10 : -5
karmaChange(voteType) == IF voteType = 1 THEN 10 ELSE -5

\* posts.find(p => p.id === postId), on the posts the handler closed over
FindPost(ps, postId) == {r \in ps : r.id = postId}

\* total_karma: (post.profiles.total_karma || 0) + karmaChange
NewKarma(post, voteType) == post.total_karma + karmaChange(voteType)

\* variant: a click in the direction of the existing vote re-asserts it
VoteBranch_NoToggle(existingVote, voteType) ==
  IF existingVote # NoVote THEN "update" ELSE "insert"

\* the mutation handleVote chooses from the looked-up row
VoteBranch(existingVote, voteType) ==
  IF existingVote # NoVote
    THEN IF existingVote.vote_type = voteType THEN "delete" ELSE "update"
    ELSE "insert"

\* handleVote itself has not returned yet (look-up or vote mutation outstanding)
InVoteStep(c) == c.pc \in {"lookup", "write"}

\* some request of the invocation is outstanding, the un-awaited ones included
InFlight(c) == InVoteStep(c) \/ c.fetch = "pending" \/ c.karma = "pending"

\* the post updateUserKarma finds in the posts its handler closed over
ClosurePost(c) == CHOOSE r \in FindPost(c.closure, c.postId) : TRUE

\* variant: removing a vote takes its delta back
KarmaValue_Compensating(c) ==
  IF VoteBranch(c.existingVote, c.voteType) = "delete"
    THEN ClosurePost(c).total_karma - karmaChange(c.voteType)
    ELSE NewKarma(ClosurePost(c), c.voteType)

\* variant: a switch of direction first takes the delta of the old vote back
KarmaValue_SwitchUndoes(c) ==
  IF VoteBranch(c.existingVote, c.voteType) = "update"
    THEN ClosurePost(c).total_karma - karmaChange(c.existingVote.vote_type) + karmaChange(c.voteType)
    ELSE NewKarma(ClosurePost(c), c.voteType)

\* the total_karma value updateUserKarma sends for invocation c
KarmaValue(c) == NewKarma(ClosurePost(c), c.voteType)

TypeOK ==
  /\ nextId \in 1..(MaxCalls + 1)
  /\ karma \in [Users -> Int]
  /\ loading \in [Clients -> BOOLEAN]
  /\ showAuthModal \in [Clients -> BOOLEAN]
  /\ Len(calls) <= MaxCalls

\* every tab has mounted: the fetchPosts of the mount effect has filled posts
\* from the freshly created tables and cleared loading, getSession() has
\* answered that there is no session
Init ==
  /\ votes = {}
  /\ nextId = 1
  /\ karma = [u \in Users |-> InitKarma]
  /\ posts = [cl \in Clients |-> SelectPosts([u \in Users |-> InitKarma])]
  /\ loading = [cl \in Clients |-> FALSE]
  /\ showAuthModal = [cl \in Clients |-> FALSE]
  /\ calls = << >>
  /\ members = {[id |-> 1, community_id |-> r.id, user_id |-> r.owner_id] : r \in CommunitiesTable}
  /\ nextMemberId = 2
  /\ memberCount = [c \in CommunityIds |-> InitMemberCount]
  /\ communities = [cl \in Clients |-> SelectCommunities([c \in CommunityIds |-> InitMemberCount],
                                                        [c \in CommunityIds |-> InitPostCount])]
  /\ jcalls = << >>
  /\ createdPosts = {}
  /\ postCount = [c \in CommunityIds |-> InitPostCount]
  /\ showCreatePostModal = [u \in Users |-> FALSE]
  /\ formData = [u \in Users |-> EmptyForm]
  /\ modalLoading = [u \in Users |-> FALSE]
  /\ modalError = [u \in Users |-> ""]
  /\ pcalls = << >>
  /\ clock = 0
  /\ limiters = [k \in {"signup", "signin", "verification"} |-> << >>]
  /\ authUser = "none"
  /\ authEvents = << >>
  /\ acalls = << >>
  /\ lastResult = [success |-> FALSE, error |-> << >>]
  /\ profile = NoProfile
  /\ authLoading = FALSE
  /\ profileFetches = [a \in Accounts |-> 0]
  /\ sessionInit = "done"
  /\ inputText = << >>
  /\ submitted = NoOutcome
  /\ authAccounts = {}
  /\ profileRows = {}
  /\ signups = << >>

\* handleVote without a session: if (!user) { setShowAuthModal(true); return }
handleVoteNoUser(cl) ==
  /\ cl = Guest
  /\ posts[cl] # {}
  /\ ~showAuthModal[cl]
  /\ showAuthModal' = [showAuthModal EXCEPT ![cl] = TRUE]
  /\ UNCHANGED <<inputVars, signupVars, votes, nextId, karma, posts, loading, calls, communityVars, postVars, authVars>>

\* handleVote(postId, voteType) by a signed-in user: the click on a rendered
\* post card issues the look-up of the existing vote
handleVote(u, postId, voteType) ==
  /\ u \in Users
  /\ Len(calls) < MaxCalls
  /\ Cardinality({i \in 1..Len(calls) : InFlight(calls[i])}) < MaxInFlight
  /\ FindPost(posts[u], postId) # {}
  /\ calls' = Append(calls,
       [user |-> u, postId |-> postId, voteType |-> voteType,
        closure |-> posts[u], pc |-> "lookup", existingVote |-> NoVote,
        reqs |-> <<"lookup">>, voteRes |-> "none",
        fetch |-> "none", karma |-> "none",
        racing |-> {i \in 1..Len(calls) : InVoteStep(calls[i])},
        concurrent |-> {i \in 1..Len(calls) : InFlight(calls[i])}])
  /\ UNCHANGED <<inputVars, signupVars, votes, nextId, karma, posts, loading, showAuthModal, communityVars, postVars, authVars>>

\* the look-up answers (data is null when there is no row); the mutation it
\* selects is sent
lookupDone(i) ==
  /\ i \in 1..Len(calls)
  /\ calls[i].pc = "lookup"
  /\ LET c == calls[i]
         ex == SelectVote(votes, c.user, c.postId)
     IN calls' = [calls EXCEPT ![i] =
          [c EXCEPT !.pc = "write", !.existingVote = ex,
                    !.reqs = Append(@, VoteBranch(ex, c.voteType))]]
  /\ UNCHANGED <<inputVars, signupVars, votes, nextId, karma, posts, loading, showAuthModal, communityVars, postVars, authVars>>

\* the rows of votes after the backend executed the chosen mutation
VoteWrite(vs, id, c) ==
  CASE VoteBranch(c.existingVote, c.voteType) = "delete" -> DeleteVote(vs, c.existingVote.id)
    [] VoteBranch(c.existingVote, c.voteType) = "update" -> UpdateVote(vs, c.existingVote.id, c.voteType)
    [] OTHER -> InsertVote(vs, id, c.user, c.postId, c.voteType)

\* variant: the backend accepts every mutation
VoteWriteResult_NoConflict(vs, c) == "ok"

\* the result the backend returns for the mutation (never inspected by the client)
VoteWriteResult(vs, c) ==
  IF VoteBranch(c.existingVote, c.voteType) = "insert"
       /\ ~UniqueUserPost(vs, c.user, c.postId)
    THEN "conflict"
    ELSE "ok"

\* updateUserKarma up to its request: nothing is sent when the post is not found
KarmaRequest(c) == IF FindPost(c.closure, c.postId) = {} THEN "skipped" ELSE "pending"

\* variant: updateUserKarma is called before fetchPosts
SpawnedRequests_KarmaFirst(c) ==
  IF KarmaRequest(c) = "pending" THEN <<"karma", "fetchPosts">> ELSE <<"fetchPosts">>

\* the requests handleVote starts after the vote mutation, in call order:
\* fetchPosts() and then updateUserKarma(postId, voteType)
SpawnedRequests(c) ==
  IF KarmaRequest(c) = "pending" THEN <<"fetchPosts", "karma">> ELSE <<"fetchPosts">>

\* the vote mutation answers (its result is not inspected); then fetchPosts()
\* and updateUserKarma(postId, voteType) are called, in this order, not awaited
voteWriteDone(i) ==
  /\ i \in 1..Len(calls)
  /\ calls[i].pc = "write"
  /\ LET c == calls[i]
         after == VoteWrite(votes, nextId, c)
     IN /\ votes' = after
        /\ nextId' = IF \E r \in after : r.id = nextId THEN nextId + 1 ELSE nextId
        /\ calls' = [calls EXCEPT ![i] =
             [c EXCEPT !.pc = "after",
                       !.voteRes = VoteWriteResult(votes, c),
                       !.fetch = "pending",
                       !.karma = KarmaRequest(c),
                       !.reqs = @ \o SpawnedRequests(c)]]
  /\ UNCHANGED <<inputVars, signupVars, karma, posts, loading, showAuthModal, communityVars, postVars, authVars>>

\* fetchPosts of invocation i answers: setPosts(data) replaces the list
fetchPostsDone(i) ==
  /\ i \in 1..Len(calls)
  /\ calls[i].fetch = "pending"
  /\ posts' = [posts EXCEPT ![calls[i].user] = SelectPosts(karma)]
  /\ calls' = [calls EXCEPT ![i].fetch = "done"]
  /\ loading' = [loading EXCEPT ![calls[i].user] = FALSE]
  /\ UNCHANGED <<inputVars, signupVars, votes, nextId, karma, showAuthModal, communityVars, postVars, authVars>>

\* the outcome of "update profiles set total_karma = v where id = author"
\* sent by uid: "norow" (no row passes the update policy, which is not an
\* error), "check" (karma_positive rejects it, an error), "ok"
KarmaWriteResult(uid, author, v) ==
  IF ~CanUpdateProfile(uid, author) THEN "norow"
  ELSE IF ~karma_positive(v) THEN "check"
  ELSE "ok"

\* variant: the backend adds the delta to the stored value (atomic increment)
KarmaWrite_Increment(k, c, res) ==
  IF res = "ok"
    THEN [k EXCEPT ![ClosurePost(c).author_id] = @ + karmaChange(c.voteType)]
    ELSE k

\* variant: the value is stored whatever the outcome of the request
KarmaWrite_IgnoreResult(k, c, res) ==
  [k EXCEPT ![ClosurePost(c).author_id] = KarmaValue(c)]

\* profiles.total_karma after the karma request of invocation c with outcome res
KarmaWrite(k, c, res) ==
  IF res = "ok" THEN [k EXCEPT ![ClosurePost(c).author_id] = KarmaValue(c)] ELSE k

\* variant: the answer to the karma update is patched into the local post list
karmaWriteDone_Optimistic(i) ==
  /\ i \in 1..Len(calls)
  /\ calls[i].karma = "pending"
  /\ LET c == calls[i]
         author == ClosurePost(c).author_id
         res == KarmaWriteResult(c.user, author, KarmaValue(c))
     IN /\ karma' = KarmaWrite(karma, c, res)
        /\ calls' = [calls EXCEPT ![i].karma = res]
        /\ posts' = [posts EXCEPT ![c.user] = SelectPosts(karma')]
  /\ UNCHANGED <<inputVars, signupVars, votes, nextId, loading, showAuthModal, communityVars, postVars, authVars>>

\* the karma update of invocation i answers; an error is only logged
karmaWriteDone(i) ==
  /\ i \in 1..Len(calls)
  /\ calls[i].karma = "pending"
  /\ LET c == calls[i]
         author == ClosurePost(c).author_id
         res == KarmaWriteResult(c.user, author, KarmaValue(c))
     IN /\ karma' = KarmaWrite(karma, c, res)
        /\ calls' = [calls EXCEPT ![i].karma = res]
  /\ UNCHANGED <<inputVars, signupVars, votes, nextId, posts, loading, showAuthModal, communityVars, postVars, authVars>>

Next ==
  \/ \E cl \in Clients : handleVoteNoUser(cl)
  \/ \E u \in Users, p \in PostIds, vt \in VoteTypes : handleVote(u, p, vt)
  \/ \E i \in 1..MaxCalls : lookupDone(i)
  \/ \E i \in 1..MaxCalls : voteWriteDone(i)
  \/ \E i \in 1..MaxCalls : fetchPostsDone(i)
  \/ \E i \in 1..MaxCalls : karmaWriteDone(i)

Spec == Init /\ [][Next]_vars

(* ------------------------------------------- client: joinCommunity flow *)
\* Math.max(0, n)
Max0(n) == IF n < 0 THEN 0 ELSE n

\* communities.find(c => c.id === communityId), on the list the handler closed over
FindCommunity(cs, communityId) == {r \in cs : r.id = communityId}

\* the mutation joinCommunity chooses from the looked-up membership row
MemberBranch(existingMember) == IF existingMember # NoMember THEN "delete" ELSE "insert"

\* the community row joinCommunity finds in the list its handler closed over
ClosureCommunity(c) == CHOOSE r \in FindCommunity(c.closure, c.communityId) : TRUE

\* the member_count value joinCommunity sends for invocation c
MemberCountValue(c) ==
  IF MemberBranch(c.existingMember) = "delete"
    THEN Max0(ClosureCommunity(c).member_count - 1)
    ELSE ClosureCommunity(c).member_count + 1

\* some request of the invocation is outstanding, the un-awaited re-fetch included
JoinInFlight(c) == c.pc \in {"lookup", "mutate", "update"} \/ c.fetch = "pending"

\* variant: the handler goes on to the membership look-up without a session
joinCommunityNoUser_Proceeds(cl) ==
  /\ cl = Guest
  /\ communities[cl] # {}
  /\ Len(jcalls) < MaxJoins
  /\ jcalls' = Append(jcalls,
       [user |-> cl, communityId |-> "c1", closure |-> communities[cl],
        pc |-> "lookup", existingMember |-> NoMember, reqs |-> <<"lookup">>,
        mutRes |-> "none", updRes |-> "none", fetch |-> "none",
        concurrent |-> {}])
  /\ UNCHANGED <<inputVars, signupVars, voteVars, postVars, authVars, showAuthModal, members, nextMemberId, memberCount, communities>>

\* joinCommunity without a session: if (!user) { setShowAuthModal(true); return }
joinCommunityNoUser(cl) ==
  /\ cl = Guest
  /\ communities[cl] # {}
  /\ ~showAuthModal[cl]
  /\ showAuthModal' = [showAuthModal EXCEPT ![cl] = TRUE]
  /\ UNCHANGED <<inputVars, signupVars, voteVars, communityVars, postVars, authVars>>

\* joinCommunity(communityId) by a signed-in user: the click on the button of a
\* rendered community card issues the look-up of the membership row
joinCommunity(u, communityId) ==
  /\ u \in Users
  /\ Len(jcalls) < MaxJoins
  /\ FindCommunity(communities[u], communityId) # {}
  /\ jcalls' = Append(jcalls,
       [user |-> u, communityId |-> communityId, closure |-> communities[u],
        pc |-> "lookup", existingMember |-> NoMember, reqs |-> <<"lookup">>,
        mutRes |-> "none", updRes |-> "none", fetch |-> "none",
        concurrent |-> {i \in 1..Len(jcalls) : JoinInFlight(jcalls[i])}])
  /\ UNCHANGED <<inputVars, signupVars, voteVars, postVars, authVars, showAuthModal, members, nextMemberId, memberCount, communities>>

\* the look-up answers (data is null when there is no row); the mutation it
\* selects is sent
memberLookupDone(i) ==
  /\ i \in 1..Len(jcalls)
  /\ jcalls[i].pc = "lookup"
  /\ LET c == jcalls[i]
         ex == SelectMember(members, c.communityId, c.user)
     IN jcalls' = [jcalls EXCEPT ![i] =
          [c EXCEPT !.pc = "mutate", !.existingMember = ex,
                    !.reqs = Append(@, MemberBranch(ex))]]
  /\ UNCHANGED <<inputVars, signupVars, voteVars, postVars, authVars, showAuthModal, members, nextMemberId, memberCount, communities>>

\* the rows of community_members after the backend executed the chosen mutation
MemberWrite(ms, id, c) ==
  IF MemberBranch(c.existingMember) = "delete"
    THEN DeleteMember(ms, c.existingMember.id)
    ELSE InsertMember(ms, id, c.communityId, c.user)

\* the result the backend returns for the mutation (never inspected by the client)
MemberWriteResult(ms, c) ==
  IF MemberBranch(c.existingMember) = "insert"
       /\ ~UniqueCommunityUser(ms, c.communityId, c.user)
    THEN "conflict"
    ELSE "ok"

\* the membership mutation answers (its result is not inspected); the
\* member_count update is sent when the community is in the closed-over list,
\* otherwise fetchCommunities() is called right away
memberWriteDone(i) ==
  /\ i \in 1..Len(jcalls)
  /\ jcalls[i].pc = "mutate"
  /\ LET c == jcalls[i]
         after == MemberWrite(members, nextMemberId, c)
         found == FindCommunity(c.closure, c.communityId) # {}
     IN /\ members' = after
        /\ nextMemberId' = IF \E r \in after : r.id = nextMemberId
                             THEN nextMemberId + 1 ELSE nextMemberId
        /\ jcalls' = [jcalls EXCEPT ![i] =
             [c EXCEPT !.pc = IF found THEN "update" ELSE "done",
                       !.mutRes = MemberWriteResult(members, c),
                       !.fetch = IF found THEN "none" ELSE "pending",
                       !.reqs = @ \o (IF found THEN <<"update">> ELSE <<"fetchCommunities">>)]]
  /\ UNCHANGED <<inputVars, signupVars, voteVars, postVars, authVars, showAuthModal, memberCount, communities>>

\* the outcome of "update communities set member_count = v where id = cid"
\* sent by uid: "norow" (no row passes the update policies, which is not an
\* error), "check" (member_count_positive rejects it), "ok"
CountWriteResult(uid, cid, v) ==
  IF ~CanUpdateCommunity(uid, cid) THEN "norow"
  ELSE IF ~member_count_positive(v) THEN "check"
  ELSE "ok"

\* the member_count update answers (its result is not inspected); then
\* fetchCommunities() is called, not awaited
countUpdateDone(i) ==
  /\ i \in 1..Len(jcalls)
  /\ jcalls[i].pc = "update"
  /\ LET c == jcalls[i]
         res == CountWriteResult(c.user, c.communityId, MemberCountValue(c))
     IN /\ memberCount' = IF res = "ok"
                            THEN [memberCount EXCEPT ![c.communityId] = MemberCountValue(c)]
                            ELSE memberCount
        /\ jcalls' = [jcalls EXCEPT ![i] =
             [c EXCEPT !.pc = "done", !.updRes = res, !.fetch = "pending",
                       !.reqs = Append(@, "fetchCommunities")]]
  /\ UNCHANGED <<inputVars, signupVars, voteVars, postVars, authVars, showAuthModal, members, nextMemberId, communities>>

\* fetchCommunities of invocation i answers: setCommunities(data) replaces the list
fetchCommunitiesDone(i) ==
  /\ i \in 1..Len(jcalls)
  /\ jcalls[i].fetch = "pending"
  /\ communities' = [communities EXCEPT ![jcalls[i].user] = SelectCommunities(memberCount, postCount)]
  /\ jcalls' = [jcalls EXCEPT ![i].fetch = "done"]
  /\ UNCHANGED <<inputVars, signupVars, voteVars, postVars, authVars, showAuthModal, members, nextMemberId, memberCount>>

NextCommunity ==
  \/ \E cl \in Clients : handleVoteNoUser(cl)
  \/ \E cl \in Clients : joinCommunityNoUser(cl)
  \/ \E u \in Users, c \in CommunityIds : joinCommunity(u, c)
  \/ \E i \in 1..MaxJoins : memberLookupDone(i)
  \/ \E i \in 1..MaxJoins : memberWriteDone(i)
  \/ \E i \in 1..MaxJoins : countUpdateDone(i)
  \/ \E i \in 1..MaxJoins : fetchCommunitiesDone(i)

SpecCommunity == Init /\ [][NextCommunity]_vars

(* ------------------------------------- client: CreatePostModal.handleSubmit *)
\* communities.find(c => c.id === formData.community_id) on the communities prop
PostCommunity(c) == FindCommunity(c.communities, c.form.community_id)

\* the post_count update is sent: if (formData.community_id) { ... if (community) ... }
SendsPostCount(c) == c.form.community_id # "" /\ PostCommunity(c) # {}

\* the users whose CreatePostModal is open or has been used
Posters ==
  {u \in Users : \/ showCreatePostModal[u]
                 \/ formData[u] # EmptyForm
                 \/ modalError[u] # ""
                 \/ \E i \in 1..Len(pcalls) : pcalls[i].user = u}

\* the button "Create Post" of the feed: user ? setShowCreatePostModal(true) : ...
openCreatePostModal(u) ==
  /\ u \in Users
  /\ Len(pcalls) < MaxSubmits
  /\ Cardinality(Posters \cup {u}) <= MaxPosters
  /\ ~showCreatePostModal[u]
  /\ showCreatePostModal' = [showCreatePostModal EXCEPT ![u] = TRUE]
  /\ UNCHANGED <<inputVars, signupVars, voteVars, communityVars, authVars, showAuthModal, createdPosts, postCount,
                 formData, modalLoading, modalError, pcalls>>

\* onClose: setShowCreatePostModal(false); the modal's state is kept
closeCreatePostModal(u) ==
  /\ u \in Users
  /\ showCreatePostModal[u]
  /\ showCreatePostModal' = [showCreatePostModal EXCEPT ![u] = FALSE]
  /\ UNCHANGED <<inputVars, signupVars, voteVars, communityVars, authVars, showAuthModal, createdPosts, postCount,
                 formData, modalLoading, modalError, pcalls>>

\* the onChange handlers of the inputs: setFormData({...formData, field: value});
\* the community options are those of the communities prop
editForm(u, text, communityId) ==
  /\ u \in Users
  /\ showCreatePostModal[u]
  /\ Len(pcalls) < MaxSubmits
  /\ communityId # "" => FindCommunity(communities[u], communityId) # {}
  /\ formData[u] # [text |-> text, community_id |-> communityId]
  /\ formData' = [formData EXCEPT ![u] = [text |-> text, community_id |-> communityId]]
  /\ UNCHANGED <<inputVars, signupVars, voteVars, communityVars, authVars, showAuthModal, createdPosts, postCount,
                 showCreatePostModal, modalLoading, modalError, pcalls>>

\* handleSubmit up to its first await: the submit button is disabled while
\* loading and the inputs are required; setLoading(true), setError(''), insert
handleSubmit(u) ==
  /\ u \in Users
  /\ Len(pcalls) < MaxSubmits
  /\ showCreatePostModal[u]
  /\ ~modalLoading[u]
  /\ formData[u].text # ""
  /\ modalLoading' = [modalLoading EXCEPT ![u] = TRUE]
  /\ modalError' = [modalError EXCEPT ![u] = ""]
  /\ pcalls' = Append(pcalls,
       [user |-> u, form |-> formData[u], communities |-> communities[u],
        pc |-> "insert", reqs |-> <<"insert">>, insRes |-> "none", updRes |-> "none",
        fetch |-> "none"])
  /\ UNCHANGED <<inputVars, signupVars, voteVars, communityVars, authVars, showAuthModal, createdPosts, postCount,
                 showCreatePostModal, formData>>

\* the result of the insert into posts
PostInsertResult(c) == IF title_length(c.form.text) THEN "ok" ELSE "check"

\* variant: the result of the insert is not inspected
InsertThrows_Never(res) == FALSE

\* if (error) throw error
InsertThrows(res) == res # "ok"

\* the insert answers.  On an error: catch sets the error message, finally
\* clears loading.  Otherwise the post_count update is sent when a community
\* was selected and is in the communities prop; without one the handler
\* finishes: onPostCreated() (fetchPosts(), setShowCreatePostModal(false)),
\* the form is reset, loading is cleared
postInsertDone(i) ==
  /\ i \in 1..Len(pcalls)
  /\ pcalls[i].pc = "insert"
  /\ LET c == pcalls[i]
         u == c.user
         res == PostInsertResult(c)
     IN /\ createdPosts' =
             IF res = "ok"
               THEN createdPosts \cup {[id |-> ToString(i), author_id |-> u,
                                        community_id |-> c.form.community_id]}
               ELSE createdPosts
        /\ IF InsertThrows(res)
             THEN /\ modalError' = [modalError EXCEPT ![u] = "Failed to create post"]
                  /\ modalLoading' = [modalLoading EXCEPT ![u] = FALSE]
                  /\ pcalls' = [pcalls EXCEPT ![i] = [c EXCEPT !.pc = "done", !.insRes = res]]
                  /\ UNCHANGED <<showCreatePostModal, formData>>
             ELSE IF SendsPostCount(c)
               THEN /\ pcalls' = [pcalls EXCEPT ![i] =
                         [c EXCEPT !.pc = "update", !.insRes = res,
                                   !.reqs = Append(@, "update")]]
                    /\ UNCHANGED <<showCreatePostModal, formData, modalLoading, modalError>>
               ELSE /\ pcalls' = [pcalls EXCEPT ![i] =
                         [c EXCEPT !.pc = "done", !.insRes = res, !.fetch = "pending",
                                   !.reqs = Append(@, "fetchPosts")]]
                    /\ showCreatePostModal' = [showCreatePostModal EXCEPT ![u] = FALSE]
                    /\ formData' = [formData EXCEPT ![u] = EmptyForm]
                    /\ modalLoading' = [modalLoading EXCEPT ![u] = FALSE]
                    /\ UNCHANGED modalError
  /\ UNCHANGED <<inputVars, signupVars, voteVars, communityVars, authVars, showAuthModal, postCount>>

\* the outcome of "update communities set post_count = v where id = cid" sent by uid
PostCountWriteResult(uid, cid, v) ==
  IF ~CanUpdateCommunity(uid, cid) THEN "norow"
  ELSE IF ~post_count_positive(v) THEN "check"
  ELSE "ok"

\* the post_count value handleSubmit sends: community.post_count + 1
PostCountValue(c) == (CHOOSE r \in PostCommunity(c) : TRUE).post_count + 1

\* the post_count update answers (its result is not inspected): onPostCreated(),
\* the form is reset, loading is cleared
postCountUpdateDone(i) ==
  /\ i \in 1..Len(pcalls)
  /\ pcalls[i].pc = "update"
  /\ LET c == pcalls[i]
         u == c.user
         res == PostCountWriteResult(u, c.form.community_id, PostCountValue(c))
     IN /\ postCount' = IF res = "ok"
                          THEN [postCount EXCEPT ![c.form.community_id] = PostCountValue(c)]
                          ELSE postCount
        /\ pcalls' = [pcalls EXCEPT ![i] =
             [c EXCEPT !.pc = "done", !.updRes = res, !.fetch = "pending",
                       !.reqs = Append(@, "fetchPosts")]]
        /\ showCreatePostModal' = [showCreatePostModal EXCEPT ![u] = FALSE]
        /\ formData' = [formData EXCEPT ![u] = EmptyForm]
        /\ modalLoading' = [modalLoading EXCEPT ![u] = FALSE]
  /\ UNCHANGED <<inputVars, signupVars, voteVars, communityVars, authVars, showAuthModal, createdPosts, modalError>>

\* the posts query once posts have been created: the rows of the table joined
\* with their authors' profiles
SelectAllPosts(k, created) ==
  SelectPosts(k) \cup
    {[id |-> r.id, author_id |-> r.author_id, total_karma |-> k[r.author_id]] : r \in created}

\* the fetchPosts of onPostCreated answers: setPosts(data), setLoading(false)
postFetchDone(i) ==
  /\ i \in 1..Len(pcalls)
  /\ pcalls[i].fetch = "pending"
  /\ posts' = [posts EXCEPT ![pcalls[i].user] = SelectAllPosts(karma, createdPosts)]
  /\ loading' = [loading EXCEPT ![pcalls[i].user] = FALSE]
  /\ pcalls' = [pcalls EXCEPT ![i].fetch = "done"]
  /\ UNCHANGED <<inputVars, signupVars, votes, nextId, karma, calls, communityVars, authVars, showAuthModal,
                 createdPosts, postCount, showCreatePostModal, formData,
                 modalLoading, modalError>>

NextPost ==
  \/ \E u \in Users : openCreatePostModal(u)
  \/ \E u \in Users : closeCreatePostModal(u)
  \/ \E u \in Users, t \in Texts, c \in CommunityIds \cup {""} : editForm(u, t, c)
  \/ \E u \in Users : handleSubmit(u)
  \/ \E i \in 1..MaxSubmits : postInsertDone(i)
  \/ \E i \in 1..MaxSubmits : postCountUpdateDone(i)
  \/ \E i \in 1..MaxSubmits : postFetchDone(i)

SpecPost == Init /\ [][NextPost]_vars

(* ------------------------------- the three flows against the one backend *)
\* the handler invocations made so far: votes, joins, submissions, and the
\* CreatePostModal sessions that have not submitted yet
ClientCalls ==
  Len(calls) + Len(jcalls) + Len(pcalls)
    + Cardinality({u \in Posters : \A i \in 1..Len(pcalls) : pcalls[i].user # u})

\* the feed, the community list and the CreatePostModal of every tab, used in
\* any order
NextClient ==
  /\ Next \/ NextCommunity \/ NextPost
  /\ ClientCalls' <= MaxClientCalls

SpecClient == Init /\ [][NextClient]_vars

(* ------------------------------------------ utils/validation.ts: strings *)
\* a string is a sequence of one-character strings
LowerSeq ==
  <<"a", "b", "c", "d", "e", "f", "g", "h", "i", "j", "k", "l", "m", "n",
    "o", "p", "q", "r", "s", "t", "u", "v", "w", "x", "y", "z">>
UpperSeq ==
  <<"A", "B", "C", "D", "E", "F", "G", "H", "I", "J", "K", "L", "M", "N",
    "O", "P", "Q", "R", "S", "T", "U", "V", "W", "X", "Y", "Z">>
Lower == {LowerSeq[n] : n \in 1..Len(LowerSeq)}
Upper == {UpperSeq[n] : n \in 1..Len(UpperSeq)}
Digits ==
  {"0", "1", "2", "3", "4", "5", "6", "7", "8", "9"}
\* the characters of the special-character class of validatePassword
Specials ==
  {"!", "@", "#", "$", "%", "^", "&", "*", "(", ")", "_", "+", "-", "=",
    "[", "]", "{", "}", ";", "'", ":", "\"", "\\", "|", ",", ".", "<", ">",
    "/", "?"}
\* the whitespace that occurs in the inputs
Whitespace == {" "}

\* String.prototype.toLowerCase
ToLowerChar(c) ==
  IF c \in Upper THEN LowerSeq[CHOOSE n \in 1..Len(UpperSeq) : UpperSeq[n] = c] ELSE c
toLowerCase(s) == IF s = << >> THEN << >> ELSE [n \in 1..Len(s) |-> ToLowerChar(s[n])]

\* String.prototype.trim
RECURSIVE trimStart(_)
trimStart(s) == IF s # << >> /\ Head(s) \in Whitespace THEN trimStart(Tail(s)) ELSE s
RECURSIVE trimEnd(_)
trimEnd(s) ==
  IF s # << >> /\ s[Len(s)] \in Whitespace THEN trimEnd(SubSeq(s, 1, Len(s) - 1)) ELSE s
trim(s) == trimEnd(trimStart(s))

\* String.prototype.includes
includes(s, sub) == \E n \in 0..(Len(s) - Len(sub)) : SubSeq(s, n + 1, n + Len(sub)) = sub

\* /[class]/.test(s) and /^[class]+$/.test(s)
TestClass(s, class) == \E n \in 1..Len(s) : s[n] \in class
AllInClass(s, class) == s # << >> /\ \A n \in 1..Len(s) : s[n] \in class

\* if (cond) errors.push(msg)
PushIf(cond, msg) == IF cond THEN <<msg>> ELSE << >>

\* Array.prototype.join
RECURSIVE join(_, _)
join(errors, sep) ==
  IF Len(errors) <= 1 THEN errors ELSE <<Head(errors), sep>> \o join(Tail(errors), sep)

\* /^[a-zA-Z0-9._%+-]+@[a-zA-Z0-9.-]+\.[a-zA-Z]{2,}$/
emailRegex(s) ==
  \E a \in 2..Len(s), d \in 3..Len(s) :
    /\ s[a] = "@"
    /\ \A n \in 1..(a - 1) : s[n] \in Lower \cup Upper \cup Digits \cup {".", "_", "%", "+", "-"}
    /\ d > a + 1 /\ s[d] = "."
    /\ \A n \in (a + 1)..(d - 1) : s[n] \in Lower \cup Upper \cup Digits \cup {".", "-"}
    /\ Len(s) - d >= 2
    /\ \A n \in (d + 1)..Len(s) : s[n] \in Lower \cup Upper

\* email.split('@')[1]: the text between the first and the second "@"
EmailDomain(s) ==
  IF ~TestClass(s, {"@"}) THEN << >>
  ELSE LET a == CHOOSE n \in 1..Len(s) : s[n] = "@" /\ \A m \in 1..(n - 1) : s[m] # "@"
           rest == SubSeq(s, a + 1, Len(s))
       IN IF ~TestClass(rest, {"@"}) THEN rest
          ELSE SubSeq(rest, 1,
                 (CHOOSE n \in 1..Len(rest) : rest[n] = "@" /\ \A m \in 1..(n - 1) : rest[m] # "@") - 1)

validateEmail(email) ==
  IF email = << >> THEN <<"Email is required">>
  ELSE PushIf(~emailRegex(email), "Please enter a valid email address")
    \o PushIf(Len(email) > 254, "Email address is too long")
    \o PushIf(Len(EmailDomain(email)) > 253, "Email domain is too long")
    \o PushIf(includes(email, <<".", ".">>) \/ email[1] = "." \/ email[Len(email)] = ".",
              "Email contains invalid patterns")

commonPasswords ==
  {<<"p", "a", "s", "s", "w", "o", "r", "d">>,
    <<"1", "2", "3", "4", "5", "6", "7", "8">>,
    <<"q", "w", "e", "r", "t", "y">>, <<"a", "b", "c", "1", "2", "3">>,
    <<"p", "a", "s", "s", "w", "o", "r", "d", "1", "2", "3">>,
    <<"a", "d", "m", "i", "n">>, <<"l", "e", "t", "m", "e", "i", "n">>,
    <<"w", "e", "l", "c", "o", "m", "e">>,
    <<"1", "2", "3", "4", "5", "6", "7", "8", "9">>,
    <<"p", "a", "s", "s", "w", "o", "r", "d", "1">>}

\* the alternatives of /123456|abcdef|qwerty|654321|fedcba|ytrewq/
sequentialPatterns ==
  {<<"1", "2", "3", "4", "5", "6">>, <<"a", "b", "c", "d", "e", "f">>,
    <<"q", "w", "e", "r", "t", "y">>, <<"6", "5", "4", "3", "2", "1">>,
    <<"f", "e", "d", "c", "b", "a">>, <<"y", "t", "r", "e", "w", "q">>}

validatePassword(password) ==
  IF password = << >> THEN <<"Password is required">>
  ELSE PushIf(Len(password) < 8, "Password must be at least 8 characters long")
    \o PushIf(Len(password) > 128, "Password must be less than 128 characters")
    \o PushIf(~TestClass(password, Lower), "Password must contain at least one lowercase letter")
    \o PushIf(~TestClass(password, Upper), "Password must contain at least one uppercase letter")
    \o PushIf(~TestClass(password, Digits), "Password must contain at least one number")
    \o PushIf(~TestClass(password, Specials), "Password must contain at least one special character")
    \o PushIf(toLowerCase(password) \in commonPasswords,
              "Password is too common, please choose a stronger password")
    \o PushIf(\E p \in sequentialPatterns : includes(toLowerCase(password), p),
              "Password contains sequential characters")

reservedUsernames ==
  {<<"a", "d", "m", "i", "n">>, <<"r", "o", "o", "t">>,
    <<"a", "d", "m", "i", "n", "i", "s", "t", "r", "a", "t", "o", "r">>,
    <<"m", "o", "d", "e", "r", "a", "t", "o", "r">>,
    <<"s", "u", "p", "p", "o", "r", "t">>, <<"h", "e", "l", "p">>,
    <<"a", "p", "i">>, <<"w", "w", "w">>, <<"m", "a", "i", "l">>,
    <<"f", "t", "p">>, <<"b", "l", "o", "g">>, <<"n", "e", "w", "s">>,
    <<"s", "h", "o", "p">>, <<"f", "o", "r", "u", "m">>,
    <<"u", "s", "e", "r">>, <<"u", "s", "e", "r", "s">>,
    <<"p", "r", "o", "f", "i", "l", "e">>,
    <<"a", "c", "c", "o", "u", "n", "t">>,
    <<"s", "e", "t", "t", "i", "n", "g", "s">>, <<"l", "o", "g", "i", "n">>,
    <<"s", "i", "g", "n", "u", "p">>, <<"a", "u", "t", "h">>,
    <<"o", "a", "u", "t", "h">>, <<"s", "e", "c", "u", "r", "i", "t", "y">>,
    <<"p", "r", "i", "v", "a", "c", "y">>, <<"t", "e", "r", "m", "s">>,
    <<"a", "b", "o", "u", "t">>, <<"c", "o", "n", "t", "a", "c", "t">>,
    <<"n", "u", "l", "l">>, <<"u", "n", "d", "e", "f", "i", "n", "e", "d">>,
    <<"s", "y", "s", "t", "e", "m">>, <<"b", "o", "t">>,
    <<"g", "u", "e", "s", "t">>,
    <<"a", "n", "o", "n", "y", "m", "o", "u", "s">>, <<"t", "e", "s", "t">>}

validateUsername(username) ==
  IF username = << >> THEN <<"Username is required">>
  ELSE PushIf(Len(username) < 3, "Username must be at least 3 characters long")
    \o PushIf(Len(username) > 30, "Username must be less than 30 characters long")
    \o PushIf(~AllInClass(username, Lower \cup Upper \cup Digits \cup {"_"}),
              "Username can only contain letters, numbers, and underscores")
    \o PushIf(username[1] \notin Lower \cup Upper \cup Digits,
              "Username must start with a letter or number")
    \o PushIf(toLowerCase(username) \in reservedUsernames,
              "This username is reserved and cannot be used")

validateDisplayName(displayName) ==
  IF displayName = << >> THEN <<"Display name is required">>
  ELSE PushIf(Len(displayName) < 1, "Display name cannot be empty")
    \o PushIf(Len(displayName) > 100, "Display name must be less than 100 characters long")
    \o PushIf(trim(displayName) = << >>, "Display name cannot be only whitespace")
    \o PushIf(TestClass(displayName, {"<", ">", "\"", "'", "&"}),
              "Display name contains invalid characters")

\* validateSignupData(data).errors; isValid is errors.length === 0
validateSignupData(data) ==
  validateEmail(data.email) \o validatePassword(data.password)
    \o validateUsername(data.username) \o validateDisplayName(data.displayName)

(* -------------------------------------- utils/validation.ts: RateLimiter *)
\* attempts.filter(time => now - time < this.windowMs)
ValidAttempts(attempts, now, windowMs) == SelectSeq(attempts, LAMBDA t : now - t < windowMs)

\* canAttempt: the value returned (the filtered list is stored as well)
canAttempt(attempts, now, maxAttempts, windowMs) ==
  Len(ValidAttempts(attempts, now, windowMs)) < maxAttempts

\* recordAttempt: attempts.push(now)
recordAttempt(attempts, now) == Append(attempts, now)

\* Math.min(...attempts)
MinOf(attempts) ==
  CHOOSE t \in {attempts[n] : n \in 1..Len(attempts)} :
    \A n \in 1..Len(attempts) : t <= attempts[n]

\* getRemainingTime, in minutes
getRemainingTime(attempts, now, maxAttempts, windowMs) ==
  IF Len(attempts) < maxAttempts THEN 0
  ELSE Max0(windowMs - (now - MinOf(attempts)))

(* ------------------------------------------ client: AuthProvider (App.tsx) *)
\* the three limiters AuthProvider constructs in its body
LimiterKinds == {"signup", "signin", "verification"}

\* new RateLimiter(3, ...), new RateLimiter(5, ...), new RateLimiter(3, ...)
maxAttempts == [signup |-> 3, signin |-> 5, verification |-> 3]

\* 15 * 60 * 1000, 15 * 60 * 1000 and 5 * 60 * 1000 milliseconds, in minutes
windowMs == [signup |-> 15, signin |-> 15, verification |-> 5]

\* the limiters of a render: the component body runs "new RateLimiter(...)"
\* at every render, so each render starts from empty attempt lists
FreshLimiters == [k \in LimiterKinds |-> << >>]

\* the instants (minutes since page load) at which Date.now() is read
Instants == {0, 5, 15}

\* arguments of signUp: one that passes validation, one that passes it only
\* after trimming, and ones that break one rule each (the last breaks two)
SignupInputs ==
  {[email |-> <<"a", "@", "b", ".", "c", "o">>, password |-> <<"X", "y", "1", "!", "x", "y", "1", "!">>,
     username |-> <<"b", "o", "b">>, displayName |-> <<"B", "o", "b">>],
   [email |-> <<" ", "a", "@", "b", ".", "c", "o", " ">>, password |-> <<"X", "y", "1", "!", "x", "y", "1", "!">>,
     username |-> <<" ", "b", "o", "b", " ">>, displayName |-> <<"B", "o", "b">>],
   [email |-> <<"a", "@", "b", ".", "c", "o">>, password |-> <<"X", "y", "1", "!", "x", "y">>,
     username |-> <<"b", "o", "b">>, displayName |-> <<"B", "o", "b">>],
   [email |-> <<"a", "@", "b", ".", "c", "o">>, password |-> <<"X", "Y", "1", "!", "X", "Y", "1", "!">>,
     username |-> <<"b", "o", "b">>, displayName |-> <<"B", "o", "b">>],
   [email |-> <<"a", "@", "b", ".", "c", "o">>, password |-> <<"x", "y", "1", "!", "x", "y", "1", "!">>,
     username |-> <<"b", "o", "b">>, displayName |-> <<"B", "o", "b">>],
   [email |-> <<"a", "@", "b", ".", "c", "o">>, password |-> <<"X", "y", "!", "!", "x", "y", "!", "!">>,
     username |-> <<"b", "o", "b">>, displayName |-> <<"B", "o", "b">>],
   [email |-> <<"a", "@", "b", ".", "c", "o">>, password |-> <<"X", "y", "1", "1", "x", "y", "1", "1">>,
     username |-> <<"b", "o", "b">>, displayName |-> <<"B", "o", "b">>],
   [email |-> <<"a", "@", "b", ".", "c", "o">>, password |-> <<"A", "b", "c", "d", "e", "f", "1", "!">>,
     username |-> <<"b", "o", "b">>, displayName |-> <<"B", "o", "b">>],
   [email |-> <<"a", "@", "b", ".", "c", "o">>, password |-> <<"p", "a", "s", "s", "w", "o", "r", "d">>,
     username |-> <<"b", "o", "b">>, displayName |-> <<"B", "o", "b">>],
   [email |-> <<"a", "@", "b", ".", "c", "o">>, password |-> <<"X", "y", "1", "!", "x", "y", "1", "!">>,
     username |-> <<"a", "d", "m", "i", "n">>, displayName |-> <<"B", "o", "b">>],
   [email |-> <<"a", "@", "b", ".", "c", "o">>, password |-> <<"X", "y", "1", "!", "x", "y", "1", "!">>,
     username |-> <<" ", "a", "b", " ">>, displayName |-> <<"B", "o", "b">>],
   [email |-> <<"a", "@", "b", ".", "c", "o">>, password |-> <<"X", "y", "1", "!", "x", "y", "1", "!">>,
     username |-> <<"_", "b", "o", "b">>, displayName |-> <<"B", "o", "b">>],
   [email |-> <<"a", "@", "b">>, password |-> <<"X", "y", "1", "!", "x", "y", "1", "!">>,
     username |-> <<"b", "o", "b">>, displayName |-> <<"B", "o", "b">>],
   [email |-> << >>, password |-> <<"X", "y", "1", "!", "x", "y", "1", "!">>,
     username |-> <<"b", "o", "b">>, displayName |-> <<"B", "o", "b">>],
   [email |-> <<"a", "@", "b", ".", "c", "o">>, password |-> <<"X", "y", "1", "!", "x", "y", "1", "!">>,
     username |-> <<"b", "o", "b">>, displayName |-> << >>],
   [email |-> <<"a", "@", "b", ".", "c", "o">>, password |-> <<"X", "y", "1", "!", "x", "y", "1", "!">>,
     username |-> <<"b", "o", "b">>, displayName |-> <<"<", "b", ">">>],
   [email |-> <<"a", "@", "b", ".", "c", "o">>, password |-> <<"x", "y", "1", "!", "x", "y", "1", "!">>,
     username |-> <<"A", "d", "m", "i", "n">>, displayName |-> <<"B", "o", "b">>]}

\* the arguments of signUp used where signUp is one call among the others: one
\* that passes validation and one with a reserved username
SessionSignupInputs ==
  {input \in SignupInputs :
     /\ input.email = <<"a", "@", "b", ".", "c", "o">>
     /\ input.password = <<"X", "y", "1", "!", "x", "y", "1", "!">>
     /\ input.displayName = <<"B", "o", "b">>
     /\ input.username \in {<<"b", "o", "b">>, <<"a", "d", "m", "i", "n">>}}

\* arguments of signIn
SigninInputs ==
  {[email |-> <<"a", "@", "b", ".", "c", "o">>, password |-> <<"X", "y", "1", "!", "x", "y", "1", "!">>],
   [email |-> << >>, password |-> <<"X", "y", "1", "!", "x", "y", "1", "!">>],
   [email |-> <<"a", "@", "b", ".", "c", "o">>, password |-> << >>],
   [email |-> <<"a", "@", "b", ".", "c", "o">>, password |-> <<"X", "y", "1", "!", "x">>]}

\* signUp's decision before its first await: the rate-limit check comes first,
\* the validation second
SignUpOutcome_SubmitInvalid(can, errors) == IF ~can THEN "limited" ELSE "submitted"

SignUpOutcome(can, errors) ==
  IF ~can THEN "limited"
  ELSE IF errors # << >> THEN "invalid"
  ELSE "submitted"

\* the data signUp hands to validateSignupData
SignupData(input) ==
  [email |-> trim(input.email), password |-> input.password,
   username |-> trim(input.username), displayName |-> trim(input.displayName)]

\* validateSignupData({email: email.trim(), ...}).errors for each argument
SignupErrors == [input \in SignupInputs |-> validateSignupData(SignupData(input))]

\* no call of AuthProvider is awaited: AuthModal disables its buttons while one is
AuthIdle == \A i \in 1..Len(acalls) : acalls[i].pc = "done"

\* the record of a call that reaches the backend at instant now
Sent(called, kind, now) == Append(called, [kind |-> kind, time |-> now, pc |-> "backend"])

\* time passes
tick ==
  /\ \E t \in Instants :
       /\ t > clock
       /\ \A x \in Instants : x > clock => t <= x
       /\ clock' = t
  /\ UNCHANGED <<inputVars, signupVars, voteVars, communityVars, postVars, sessionVars, showAuthModal,
                 limiters, authUser, authEvents, acalls, lastResult>>

\* signUp(email, password, userData) up to its first await
signUp(input) ==
  /\ Len(acalls) < MaxAuthCalls
  /\ AuthIdle
  /\ LET valid == ValidAttempts(limiters.signup, clock, windowMs.signup)
         can == canAttempt(limiters.signup, clock, maxAttempts.signup, windowMs.signup)
         errors == SignupErrors[input]
         outcome == SignUpOutcome(can, errors)
     IN /\ limiters' = [limiters EXCEPT !.signup =
                          IF outcome = "submitted" THEN recordAttempt(valid, clock) ELSE valid]
        /\ acalls' = IF outcome = "submitted" THEN Sent(acalls, "signup", clock) ELSE acalls
        /\ lastResult' =
             CASE outcome = "limited" ->
                    [success |-> FALSE,
                     error |-> <<"Too many signup attempts. Please wait",
                                 getRemainingTime(valid, clock, maxAttempts.signup, windowMs.signup)>>]
               [] outcome = "invalid" -> [success |-> FALSE, error |-> join(errors, ". ")]
               [] OTHER -> lastResult
  /\ UNCHANGED <<inputVars, signupVars, voteVars, communityVars, postVars, sessionVars, showAuthModal, clock, authUser, authEvents>>

\* what the backend part of signUp can return: the username pre-check finds a
\* row, auth.signUp fails, the profile insert fails, or all succeed, with or
\* without a session (a session is announced to onAuthStateChange)
SignUpAnswers == {"taken", "authError", "profileError", "ok", "okSession"}

signUpAnswer(i, answer) ==
  /\ i \in 1..Len(acalls)
  /\ acalls[i].kind = "signup" /\ acalls[i].pc = "backend"
  /\ acalls' = [acalls EXCEPT ![i].pc = "done"]
  /\ lastResult' = [success |-> answer \in {"ok", "okSession"},
                    error |-> IF answer \in {"ok", "okSession"} THEN << >> ELSE <<answer>>]
  /\ authEvents' = IF answer = "okSession" THEN Append(authEvents, Account) ELSE authEvents
  /\ UNCHANGED <<inputVars, signupVars, voteVars, communityVars, postVars, sessionVars, showAuthModal, clock, limiters, authUser>>

\* signIn's decision before its first await
SignInOutcome(can, input) ==
  IF ~can THEN "limited"
  ELSE IF input.email = << >> \/ input.password = << >> THEN "required"
  ELSE IF Len(input.password) < 6 THEN "short"
  ELSE "submitted"

\* signIn(email, password) up to its first await
signIn(input) ==
  /\ Len(acalls) < MaxAuthCalls
  /\ AuthIdle
  /\ LET valid == ValidAttempts(limiters.signin, clock, windowMs.signin)
         can == canAttempt(limiters.signin, clock, maxAttempts.signin, windowMs.signin)
         outcome == SignInOutcome(can, input)
     IN /\ limiters' = [limiters EXCEPT !.signin =
                          IF outcome = "submitted" THEN recordAttempt(valid, clock) ELSE valid]
        /\ acalls' = IF outcome = "submitted" THEN Sent(acalls, "signin", clock) ELSE acalls
        /\ lastResult' =
             CASE outcome = "limited" ->
                    [success |-> FALSE,
                     error |-> <<"Too many signin attempts. Please wait",
                                 getRemainingTime(valid, clock, maxAttempts.signin, windowMs.signin)>>]
               [] outcome = "required" ->
                    [success |-> FALSE, error |-> <<"Email and password are required.">>]
               [] outcome = "short" ->
                    [success |-> FALSE, error |-> <<"Password must be at least 6 characters long.">>]
               [] OTHER -> lastResult
  /\ UNCHANGED <<inputVars, signupVars, voteVars, communityVars, postVars, sessionVars, showAuthModal, clock, authUser, authEvents>>

\* signInWithPassword answers; a session is announced to onAuthStateChange
signInAnswer(i, ok) ==
  /\ i \in 1..Len(acalls)
  /\ acalls[i].kind = "signin" /\ acalls[i].pc = "backend"
  /\ acalls' = [acalls EXCEPT ![i].pc = "done"]
  /\ lastResult' = [success |-> ok, error |-> IF ok THEN << >> ELSE <<"authError">>]
  /\ authEvents' = IF ok THEN Append(authEvents, Account) ELSE authEvents
  /\ UNCHANGED <<inputVars, signupVars, voteVars, communityVars, postVars, sessionVars, showAuthModal, clock, limiters, authUser>>

\* resendVerification() up to its first await
resendVerification ==
  /\ Len(acalls) < MaxAuthCalls
  /\ AuthIdle
  /\ LET valid == ValidAttempts(limiters.verification, clock, windowMs.verification)
         can == canAttempt(limiters.verification, clock,
                           maxAttempts.verification, windowMs.verification)
         outcome == IF authUser = NoSession THEN "noEmail"
                    ELSE IF ~can THEN "limited" ELSE "submitted"
     IN /\ limiters' = [limiters EXCEPT !.verification =
                          CASE outcome = "noEmail" -> @
                            [] outcome = "limited" -> valid
                            [] OTHER -> recordAttempt(valid, clock)]
        /\ acalls' = IF outcome = "submitted"
                        THEN Sent(acalls, "verification", clock) ELSE acalls
        /\ lastResult' =
             CASE outcome = "noEmail" ->
                    [success |-> FALSE, error |-> <<"No email address found. Please sign up again.">>]
               [] outcome = "limited" ->
                    [success |-> FALSE,
                     error |-> <<"Please wait",
                                 getRemainingTime(valid, clock, maxAttempts.verification,
                                                  windowMs.verification)>>]
               [] OTHER -> lastResult
  /\ UNCHANGED <<inputVars, signupVars, voteVars, communityVars, postVars, sessionVars, showAuthModal, clock, authUser, authEvents>>

\* auth.resend answers
resendAnswer(i, ok) ==
  /\ i \in 1..Len(acalls)
  /\ acalls[i].kind = "verification" /\ acalls[i].pc = "backend"
  /\ acalls' = [acalls EXCEPT ![i].pc = "done"]
  /\ lastResult' = [success |-> ok, error |-> IF ok THEN << >> ELSE <<"authError">>]
  /\ UNCHANGED <<inputVars, signupVars, voteVars, communityVars, postVars, sessionVars, showAuthModal, clock, limiters,
                 authUser, authEvents>>

\* signOut(): the end of the session is announced to onAuthStateChange
signOut ==
  /\ Len(acalls) < MaxAuthCalls
  /\ AuthIdle
  /\ authUser # NoSession
  /\ acalls' = Append(acalls, [kind |-> "signout", time |-> clock, pc |-> "done"])
  /\ authEvents' = Append(authEvents, NoSession)
  /\ UNCHANGED <<inputVars, signupVars, voteVars, communityVars, postVars, sessionVars, showAuthModal, clock, limiters,
                 authUser, lastResult>>

\* a state setter was called with a value that differs from the state: a
\* session carries a new user object and a fetched profile is a new object, so
\* these always differ; null on null and false on false do not
UserChanges(newUser) == newUser # NoSession \/ authUser # NoSession
ProfileChanges(newProfile) == newProfile # NoProfile \/ profile # NoProfile
LoadingChanges(newLoading) == newLoading # authLoading

\* AuthProvider renders again and constructs its limiters anew
RenderedLimiters(rerender) == IF rerender THEN FreshLimiters ELSE limiters

\* what the session handlers do with session?.user: setUser(...), then
\* fetchProfile(user.id) is called, or setProfile(null) and setLoading(false)
SessionHandled(session) ==
  /\ authUser' = session
  /\ IF session # NoSession
       THEN /\ profileFetches' = [profileFetches EXCEPT ![session] = @ + 1]
            /\ limiters' = RenderedLimiters(UserChanges(session))
            /\ UNCHANGED <<profile, authLoading>>
       ELSE /\ profile' = NoProfile
            /\ authLoading' = FALSE
            /\ limiters' = RenderedLimiters(\/ UserChanges(session)
                                             \/ ProfileChanges(NoProfile)
                                             \/ LoadingChanges(FALSE))
            /\ UNCHANGED profileFetches

\* supabase.auth.getSession() of the mount effect answers
getSessionDone(session) ==
  /\ sessionInit = "pending"
  /\ sessionInit' = "done"
  /\ SessionHandled(session)
  /\ UNCHANGED <<inputVars, signupVars, voteVars, communityVars, postVars, showAuthModal, clock, authEvents,
                 acalls, lastResult>>

\* the callback of onAuthStateChange is called with the next announced session
onAuthStateChange ==
  /\ authEvents # << >>
  /\ authEvents' = Tail(authEvents)
  /\ SessionHandled(Head(authEvents))
  /\ UNCHANGED <<inputVars, signupVars, voteVars, communityVars, postVars, showAuthModal, clock, acalls,
                 lastResult, sessionInit>>

\* setProfile(data), or setProfile(null) when .single() found no row
FetchedProfile(account, found) == IF found THEN account ELSE NoProfile

\* a fetchProfile(account) answers: the row is set as profile, or null when
\* there is none; finally setLoading(false)
fetchProfileDone(account, found) ==
  /\ profileFetches[account] > 0
  /\ profileFetches' = [profileFetches EXCEPT ![account] = @ - 1]
  /\ profile' = FetchedProfile(account, found)
  /\ authLoading' = FALSE
  /\ limiters' = RenderedLimiters(\/ ProfileChanges(FetchedProfile(account, found))
                                   \/ LoadingChanges(FALSE))
  /\ UNCHANGED <<inputVars, signupVars, voteVars, communityVars, postVars, showAuthModal, clock, authUser,
                 authEvents, acalls, lastResult, sessionInit>>

NextAuth ==
  \/ tick
  \/ \E input \in SessionSignupInputs : signUp(input)
  \/ \E i \in 1..MaxAuthCalls, a \in SignUpAnswers : signUpAnswer(i, a)
  \/ \E input \in SigninInputs : signIn(input)
  \/ \E i \in 1..MaxAuthCalls, ok \in BOOLEAN : signInAnswer(i, ok)
  \/ resendVerification
  \/ \E i \in 1..MaxAuthCalls, ok \in BOOLEAN : resendAnswer(i, ok)
  \/ signOut
  \/ onAuthStateChange
  \/ \E found \in BOOLEAN : fetchProfileDone(Account, found)

SpecAuth == Init /\ [][NextAuth]_vars

\* AuthProvider right after its construction: nothing is known about the
\* session, loading is true and the getSession() of the mount effect is pending
InitSession ==
  /\ votes = {}
  /\ nextId = 1
  /\ karma = [u \in Users |-> InitKarma]
  /\ posts = [cl \in Clients |-> SelectPosts([u \in Users |-> InitKarma])]
  /\ loading = [cl \in Clients |-> FALSE]
  /\ showAuthModal = [cl \in Clients |-> FALSE]
  /\ calls = << >>
  /\ members = {[id |-> 1, community_id |-> r.id, user_id |-> r.owner_id] : r \in CommunitiesTable}
  /\ nextMemberId = 2
  /\ memberCount = [c \in CommunityIds |-> InitMemberCount]
  /\ communities = [cl \in Clients |-> SelectCommunities([c \in CommunityIds |-> InitMemberCount],
                                                        [c \in CommunityIds |-> InitPostCount])]
  /\ jcalls = << >>
  /\ createdPosts = {}
  /\ postCount = [c \in CommunityIds |-> InitPostCount]
  /\ showCreatePostModal = [u \in Users |-> FALSE]
  /\ formData = [u \in Users |-> EmptyForm]
  /\ modalLoading = [u \in Users |-> FALSE]
  /\ modalError = [u \in Users |-> ""]
  /\ pcalls = << >>
  /\ clock = 0
  /\ limiters = FreshLimiters
  /\ authUser = NoSession
  /\ authEvents = << >>
  /\ acalls = << >>
  /\ lastResult = [success |-> FALSE, error |-> << >>]
  /\ profile = NoProfile
  /\ authLoading = TRUE
  /\ profileFetches = [a \in Accounts |-> 0]
  /\ sessionInit = "pending"
  /\ inputText = << >>
  /\ submitted = NoOutcome
  /\ authAccounts = {}
  /\ profileRows = {}
  /\ signups = << >>

\* the fetchProfile requests not yet answered
PendingFetches == profileFetches[Account] + profileFetches["u2"]

\* supabase announces a change of the session: a sign-in, a token refresh, a
\* sign-out
authStateChange(session) ==
  /\ Len(authEvents) + PendingFetches < MaxPending
  /\ authEvents' = Append(authEvents, session)
  /\ UNCHANGED <<inputVars, signupVars, voteVars, communityVars, postVars, sessionVars, showAuthModal, clock,
                 limiters, authUser, acalls, lastResult>>

\* the session state of AuthProvider under any announced sessions
NextSession ==
  \/ \E session \in Accounts \cup {NoSession} : getSessionDone(session)
  \/ \E session \in Accounts \cup {NoSession} : authStateChange(session)
  \/ onAuthStateChange
  \/ \E a \in Accounts, found \in BOOLEAN : fetchProfileDone(a, found)

SpecSession == InitSession /\ [][NextSession]_vars

\* the attempts recorded so far, over the three limiters
Recorded == Len(limiters.signup) + Len(limiters.signin) + Len(limiters.verification)

\* limiter.canAttempt(key): the filtered list is stored, the answer returned
canAttemptCall(kind) ==
  /\ limiters' = [limiters EXCEPT ![kind] = ValidAttempts(@, clock, windowMs[kind])]
  /\ lastResult' = [success |-> canAttempt(limiters[kind], clock, maxAttempts[kind], windowMs[kind]),
                    error |-> <<kind>>]
  /\ UNCHANGED <<inputVars, signupVars, voteVars, communityVars, postVars, sessionVars, showAuthModal, clock,
                 authUser, authEvents, acalls>>

\* limiter.recordAttempt(key)
recordAttemptCall(kind) ==
  /\ Recorded < MaxRecorded
  /\ limiters' = [limiters EXCEPT ![kind] = recordAttempt(@, clock)]
  /\ UNCHANGED <<inputVars, signupVars, voteVars, communityVars, postVars, sessionVars, showAuthModal, clock,
                 authUser, authEvents, acalls, lastResult>>

\* limiter.getRemainingTime(key): nothing is stored, the time is returned
getRemainingTimeCall(kind) ==
  /\ lastResult' = [success |-> FALSE,
                    error |-> <<kind, getRemainingTime(limiters[kind], clock,
                                                       maxAttempts[kind], windowMs[kind])>>]
  /\ UNCHANGED <<inputVars, signupVars, voteVars, communityVars, postVars, sessionVars, showAuthModal, clock,
                 limiters, authUser, authEvents, acalls>>

\* the three methods of the limiters called in any order as time passes
NextLimiter ==
  \/ tick
  \/ \E kind \in LimiterKinds : canAttemptCall(kind)
  \/ \E kind \in LimiterKinds : recordAttemptCall(kind)
  \/ \E kind \in LimiterKinds : getRemainingTimeCall(kind)

SpecLimiter == Init /\ [][NextLimiter]_vars

(* ---------------------------------- utils/validation.ts: sanitizeInput *)
\* .slice(0, 1000)
SanitizeLimit == 1000

\* input.replace(/[class]/g, '')
RemoveClass(s, class) == SelectSeq(s, LAMBDA c : c \notin class)

\* .slice(0, n)
slice(s, n) == SubSeq(s, 1, IF Len(s) < n THEN Len(s) ELSE n)

\* sanitizeInput: the characters are removed, then the text is trimmed, then cut
sanitizeInput(input) ==
  slice(trim(RemoveClass(input, {"<", ">", "\"", "'", "&"})), SanitizeLimit)

(* ------------------------------- client: CreateCommunityModal (name, slug) *)
\* s without its leading characters of the class
RECURSIVE SkipClass(_, _)
SkipClass(s, class) ==
  IF s # << >> /\ Head(s) \in class THEN SkipClass(Tail(s), class) ELSE s

\* s.replace(/[class]+/g, by)
RECURSIVE ReplaceRuns(_, _, _)
ReplaceRuns(s, class, by) ==
  IF s = << >> THEN << >>
  ELSE IF Head(s) \in class THEN <<by>> \o ReplaceRuns(SkipClass(s, class), class, by)
  ELSE <<Head(s)>> \o ReplaceRuns(Tail(s), class, by)

\* s.replace(/[^class]/g, '')
KeepClass(s, class) == SelectSeq(s, LAMBDA c : c \in class)

\* generateSlug: toLowerCase, replace(/[^a-z0-9\s-]/g, ''), replace(/\s+/g, '-'),
\* replace(/-+/g, '-'), trim
generateSlug(name) ==
  trim(ReplaceRuns(
         ReplaceRuns(KeepClass(toLowerCase(name),
                               Lower \cup Digits \cup Whitespace \cup {"-"}),
                     Whitespace, "-"),
         {"-"}, "-"))

reservedNames ==
  {<<"a", "d", "m", "i", "n">>, <<"a", "p", "i">>, <<"w", "w", "w">>,
   <<"h", "e", "l", "p">>, <<"s", "u", "p", "p", "o", "r", "t">>,
   <<"h", "o", "m", "e">>, <<"f", "e", "e", "d">>,
   <<"t", "r", "e", "n", "d", "i", "n", "g">>}

\* validationErrors.name as the validation effect leaves it for formData.name
NameError(name) ==
  LET trimmedName == trim(name)
      format ==
        IF Len(trimmedName) < 2 THEN "Community name must be at least 2 characters"
        ELSE IF Len(trimmedName) > 50 THEN "Community name must be less than 50 characters"
        ELSE IF ~AllInClass(trimmedName,
                            Lower \cup Upper \cup Digits \cup Whitespace \cup {"-", "_"})
          THEN "Community name can only contain letters, numbers, spaces, hyphens, and underscores"
        ELSE ""
  IN IF name = << >> THEN ""
     ELSE IF toLowerCase(trimmedName) \in reservedNames THEN "This community name is reserved"
     ELSE format

\* CONSTRAINT community_name_length
community_name_length(name) == Len(name) >= 2 /\ Len(name) <= 50

\* CONSTRAINT community_slug_format CHECK (slug ~ '^[a-z0-9_-]+$'), slug being citext
community_slug_format(slug) == AllInClass(slug, Lower \cup Upper \cup Digits \cup {"_", "-"})

\* CONSTRAINT community_slug_length
community_slug_length(slug) == Len(slug) >= 2 /\ Len(slug) <= 30

\* the result of the insert into communities as far as name and slug decide it
InsertCommunityResult(name, slug) ==
  IF community_name_length(name) /\ community_slug_format(slug) /\ community_slug_length(slug)
    THEN "ok" ELSE "check"

\* a key is pressed in the input field
typeChar(ch) ==
  /\ Len(inputText) < MaxTyped
  /\ inputText' = Append(inputText, ch)
  /\ UNCHANGED <<signupVars, voteVars, communityVars, postVars, authVars, showAuthModal, submitted>>

\* a text is pasted into the input field in place of its contents
pasteText(text) ==
  /\ inputText # text
  /\ inputText' = text
  /\ UNCHANGED <<signupVars, voteVars, communityVars, postVars, authVars, showAuthModal, submitted>>

\* handleSubmit of CreateCommunityModal up to the answer of the insert, for the
\* name: the button is disabled while there are validation errors or the
\* trimmed name is empty
createCommunity ==
  /\ NameError(inputText) = ""
  /\ trim(inputText) # << >>
  /\ LET sanitizedName == sanitizeInput(trim(inputText))
         slug == generateSlug(sanitizedName)
     IN submitted' = [op |-> "createCommunity", text |-> sanitizedName, slug |-> slug,
                      res |-> InsertCommunityResult(sanitizedName, slug)]
  /\ UNCHANGED <<signupVars, voteVars, communityVars, postVars, authVars, showAuthModal, inputText>>

\* the community name field of CreateCommunityModal and its submission
NextCommunityName ==
  \/ \E ch \in Keys : typeChar(ch)
  \/ \E text \in PastedNames : pasteText(text)
  \/ createCommunity

SpecCommunityName == Init /\ [][NextCommunityName]_vars

\* sanitizeInput(input) is called on the text of the field
sanitizeCall ==
  /\ submitted' = [op |-> "sanitizeInput", text |-> sanitizeInput(inputText), slug |-> << >>,
                   res |-> "none"]
  /\ UNCHANGED <<signupVars, voteVars, communityVars, postVars, authVars, showAuthModal, inputText>>

\* sanitizeInput under typed and pasted texts
NextSanitize ==
  \/ \E ch \in Keys : typeChar(ch)
  \/ \E text \in PastedTexts : pasteText(text)
  \/ sanitizeCall

SpecSanitize == Init /\ [][NextSanitize]_vars

\* signUp alone, under every argument of SignupInputs
NextSignUp ==
  \/ tick
  \/ \E input \in SignupInputs : signUp(input)
  \/ \E i \in 1..MaxAuthCalls, a \in SignUpAnswers : signUpAnswer(i, a)
  \/ onAuthStateChange
  \/ \E found \in BOOLEAN : fetchProfileDone(Account, found)

SpecSignUp == Init /\ [][NextSignUp]_vars

(* ------------------------------------------------- the sign-up backend *)
\* browsers with the sign-up form open, each with its own AuthProvider
Visitors == {"v1", "v2"}

\* arguments of signUp that pass validateSignupData: two of them name the same
\* username up to case and blanks, two of them the same email address
BackendInputs ==
  {[email |-> <<"a", "@", "b", ".", "c", "o">>, password |-> <<"X", "y", "1", "!", "x", "y", "1", "!">>,
     username |-> <<"b", "o", "b">>, displayName |-> <<"B", "o", "b">>],
   [email |-> <<"C", "@", "b", ".", "c", "o">>, password |-> <<"X", "y", "1", "!", "x", "y", "1", "!">>,
     username |-> <<" ", "B", "o", "b", " ">>, displayName |-> <<"B", "o", "b">>],
   [email |-> <<"c", "@", "b", ".", "c", "o">>, password |-> <<"X", "y", "1", "!", "x", "y", "1", "!">>,
     username |-> <<"e", "v", "e">>, displayName |-> <<"E", "v", "e">>]}

\* validateSignupData({email: email.trim(), ...}).errors for each of them
BackendErrors == [input \in BackendInputs |-> validateSignupData(SignupData(input))]

\* the attempts recorded by the signup limiter of a browser: one per call of
\* its signUp that passed the limiter and the validation
VisitorAttempts(visitor) ==
  LET mine == SelectSeq(signups, LAMBDA c : c.visitor = visitor /\ c.step # "refused")
  IN [n \in 1..Len(mine) |-> mine[n].time]

\* the browser awaits no signUp: AuthModal disables its button while it does
VisitorIdle(visitor) ==
  \A i \in 1..Len(signups) : signups[i].visitor = visitor => signups[i].step \in {"refused", "done"}

\* auth.uid() of the requests of a browser: the account of the session its
\* latest auth.signUp returned, 0 without one
SessionOf(visitor) ==
  LET mine == {i \in 1..Len(signups) : signups[i].visitor = visitor /\ signups[i].session}
  IN IF mine = {} THEN 0 ELSE CHOOSE i \in mine : \A j \in mine : j <= i

\* the profiles a select of that browser sees: its own row and the verified
\* ones (all rows are inserted with is_active = true)
VisibleProfiles(visitor) ==
  {r \in profileRows : r.id = SessionOf(visitor) \/ r.email_verified}

\* citext columns compare without regard to case
SameCitext(a, b) == toLowerCase(a) = toLowerCase(b)

\* CONSTRAINT username_length, CONSTRAINT username_format
username_length(username) == Len(username) >= 3 /\ Len(username) <= 30
username_format(username) == AllInClass(username, Lower \cup Upper \cup Digits \cup {"_"})

\* the policy "System can insert profiles during signup"
CanInsertProfile(uid, profileId) == uid = profileId

\* the answer of the insert of a profile row by a request with that auth.uid()
InsertProfileResult(uid, row) ==
  IF ~CanInsertProfile(uid, row.id) THEN "rls"
  ELSE IF \E r \in profileRows : r.id = row.id THEN "unique"
  ELSE IF \E r \in profileRows : SameCitext(r.username, row.username) THEN "unique"
  ELSE IF \E r \in profileRows : SameCitext(r.email, row.email) THEN "unique"
  ELSE IF ~(username_length(row.username) /\ username_format(row.username)) THEN "check"
  ELSE "ok"

\* signUp(email, password, userData) of a browser up to its first await: the
\* limiter, the validation, the sanitized arguments, the recorded attempt and
\* the request of the username pre-check
signUpCall(visitor, input) ==
  /\ Len(signups) < MaxSignups
  /\ VisitorIdle(visitor)
  /\ LET attempts == VisitorAttempts(visitor)
         can == canAttempt(attempts, clock, maxAttempts.signup, windowMs.signup)
         outcome == SignUpOutcome(can, BackendErrors[input])
         sanitizedEmail == sanitizeInput(toLowerCase(trim(input.email)))
         sanitizedUsername == sanitizeInput(toLowerCase(trim(input.username)))
     IN signups' = Append(signups,
          [visitor |-> visitor, email |-> sanitizedEmail, username |-> sanitizedUsername,
           time |-> clock, session |-> FALSE,
           step |-> IF outcome = "submitted" THEN "check" ELSE "refused",
           success |-> FALSE,
           error |-> IF outcome = "submitted" THEN "" ELSE outcome])
  /\ UNCHANGED <<inputVars, voteVars, communityVars, postVars, authVars, showAuthModal,
                 authAccounts, profileRows>>

\* the username pre-check answers: .single() gives the row it sees, if any
usernameChecked(i) ==
  /\ i \in 1..Len(signups)
  /\ signups[i].step = "check"
  /\ LET existingUsername ==
           {r \in VisibleProfiles(signups[i].visitor) : SameCitext(r.username, signups[i].username)}
     IN signups' = IF existingUsername # {}
                   THEN [signups EXCEPT ![i].step = "done", ![i].error = "taken"]
                   ELSE [signups EXCEPT ![i].step = "auth"]
  /\ UNCHANGED <<inputVars, voteVars, communityVars, postVars, authVars, showAuthModal,
                 authAccounts, profileRows>>

\* what supabase.auth.signUp can answer: an error, no error and no user, a new
\* user awaiting verification, or a new user with a session
AuthSignUpAnswers == {"error", "noUser", "user", "userSession"}

\* supabase.auth.signUp answers; an address that has an account gets no second
\* one. With a user the insert of the profile row is requested.
authSignUpDone(i, answer) ==
  /\ i \in 1..Len(signups)
  /\ signups[i].step = "auth"
  /\ answer \in {"user", "userSession"} =>
       \A a \in authAccounts : ~SameCitext(a.email, signups[i].email)
  /\ authAccounts' = IF answer \in {"user", "userSession"}
                     THEN authAccounts \cup {[id |-> i, email |-> signups[i].email]}
                     ELSE authAccounts
  /\ signups' =
       CASE answer = "error" -> [signups EXCEPT ![i].step = "done", ![i].error = "authError"]
         [] answer = "noUser" -> [signups EXCEPT ![i].step = "done", ![i].error = "failed"]
         [] OTHER -> [signups EXCEPT ![i].step = "insert", ![i].session = (answer = "userSession")]
  /\ UNCHANGED <<inputVars, voteVars, communityVars, postVars, authVars, showAuthModal,
                 profileRows>>

\* the insert of the profile row answers and signUp returns
profileInserted(i) ==
  /\ i \in 1..Len(signups)
  /\ signups[i].step = "insert"
  /\ LET row == [id |-> i, username |-> signups[i].username, email |-> signups[i].email,
                 email_verified |-> FALSE]
         profileError == InsertProfileResult(SessionOf(signups[i].visitor), row) # "ok"
     IN /\ profileRows' = IF profileError THEN profileRows ELSE profileRows \cup {row}
        /\ signups' = IF profileError
                      THEN [signups EXCEPT ![i].step = "done", ![i].error = "profileError"]
                      ELSE [signups EXCEPT ![i].step = "done", ![i].success = TRUE]
  /\ UNCHANGED <<inputVars, voteVars, communityVars, postVars, authVars, showAuthModal,
                 authAccounts>>

\* the address of a profile is confirmed: profiles.email_verified becomes true,
\* which no code of the client does
emailVerified(id) ==
  /\ \E r \in profileRows : r.id = id /\ ~r.email_verified
  /\ profileRows' = {IF r.id = id THEN [r EXCEPT !.email_verified = TRUE] ELSE r : r \in profileRows}
  /\ UNCHANGED <<inputVars, voteVars, communityVars, postVars, authVars, showAuthModal,
                 authAccounts, signups>>

\* signUp calls of two browsers against auth.users and public.profiles
NextSignUpBackend ==
  \/ \E visitor \in Visitors, input \in BackendInputs : signUpCall(visitor, input)
  \/ \E i \in 1..MaxSignups : usernameChecked(i)
  \/ \E i \in 1..MaxSignups, answer \in AuthSignUpAnswers : authSignUpDone(i, answer)
  \/ \E i \in 1..MaxSignups : profileInserted(i)
  \/ \E i \in 1..MaxSignups : emailVerified(i)

SpecSignUpBackend == Init /\ [][NextSignUpBackend]_vars

(* ---------------------------------------------------------------- claims *)

Calls == 1..Len(calls)

\* the rows of vs for one (user, post)
RowsOf(vs, u, p) == {r \in vs : r.user_id = u /\ r.post_id = p}

SameTarget(i, j) == calls[i].user = calls[j].user /\ calls[i].postId = calls[j].postId

\* the vote step of invocation i has finished
VoteStepDone(i) == calls[i].pc = "after"

\* this step is the answer to the vote mutation of invocation i
VoteWriteStep(i) == calls[i].pc = "write" /\ calls'[i].pc = "after"

\* this step is the answer to the karma update of invocation i
KarmaWriteStep(i) == calls[i].karma = "pending" /\ calls'[i].karma # "pending"

\* no other handleVote for the same (user, post) was in its vote step while
\* invocation i was
NoOverlap(i) ==
  \A j \in Calls : (j # i /\ SameTarget(i, j)) =>
    /\ j < i => j \notin calls[i].racing
    /\ j > i => i \notin calls[j].racing

\* invocation j is the next one after i for the same (user, post)
NextOnTarget(i, j) ==
  /\ i < j
  /\ SameTarget(i, j)
  /\ \A k \in Calls : (i < k /\ k < j) => ~SameTarget(i, k)

\* C1: a handleVote that finds no vote row for (user, post), whose insert
\* succeeds and that no other handleVote for the same (user, post) overlaps,
\* leaves exactly one row for (user, post), carrying the clicked vote type.
C1_InsertLeavesOneRow ==
  [][\A i \in Calls :
       (VoteWriteStep(i) /\ calls[i].existingVote = NoVote
          /\ calls'[i].voteRes = "ok" /\ NoOverlap(i)) =>
         LET c == calls[i]
             rows == RowsOf(votes', c.user, c.postId)
         IN /\ RowsOf(votes, c.user, c.postId) = {}
            /\ Cardinality(rows) = 1
            /\ \A r \in rows : r.vote_type = c.voteType
            /\ votes' \ rows = votes]_vars

C1_Witness ==
  \E i \in Calls :
    /\ VoteStepDone(i) /\ calls[i].existingVote = NoVote /\ calls[i].voteRes = "ok"
    /\ NoOverlap(i)
    /\ calls[i].voteType = 1
    /\ RowsOf(votes, calls[i].user, calls[i].postId) =
         {[id |-> 1, user_id |-> calls[i].user, post_id |-> calls[i].postId, vote_type |-> 1]}

\* C2: a handleVote that finds a row of the same vote type deletes it; and two
\* consecutive, non-overlapping same-direction clicks on a post without a prior
\* vote leave no row for (user, post), as before the first click.
C2_ToggleOff ==
  [][/\ \A i \in Calls :
          (VoteWriteStep(i) /\ calls[i].existingVote # NoVote
             /\ calls[i].existingVote.vote_type = calls[i].voteType
             /\ calls'[i].voteRes = "ok" /\ NoOverlap(i)) =>
            /\ calls[i].existingVote \in votes
            /\ votes' = votes \ {calls[i].existingVote}
            /\ RowsOf(votes', calls[i].user, calls[i].postId) = {}
     /\ \A i, j \in Calls :
          (NextOnTarget(i, j) /\ VoteStepDone(i) /\ VoteWriteStep(j)
             /\ calls[i].voteType = calls[j].voteType
             /\ calls[i].existingVote = NoVote
             /\ calls[i].voteRes = "ok" /\ calls'[j].voteRes = "ok"
             /\ NoOverlap(i) /\ NoOverlap(j)) =>
            RowsOf(votes', calls[i].user, calls[i].postId) = {}]_vars

C2_Witness ==
  \E i, j \in Calls :
    /\ NextOnTarget(i, j) /\ VoteStepDone(i) /\ VoteStepDone(j)
    /\ calls[i].voteType = calls[j].voteType
    /\ calls[i].existingVote = NoVote /\ calls[j].existingVote # NoVote
    /\ calls[i].voteRes = "ok" /\ calls[j].voteRes = "ok"
    /\ NoOverlap(i) /\ NoOverlap(j)
    /\ votes = {}

\* C3: a handleVote that finds a row of the opposite vote type updates it in
\* place: afterwards (user, post) has exactly one row, with the id of the row
\* found and the clicked vote type.
C3_SwitchInPlace ==
  [][\A i \in Calls :
       (VoteWriteStep(i) /\ calls[i].existingVote # NoVote
          /\ calls[i].existingVote.vote_type # calls[i].voteType
          /\ calls'[i].voteRes = "ok" /\ NoOverlap(i)) =>
         /\ calls[i].existingVote \in votes
         /\ RowsOf(votes', calls[i].user, calls[i].postId) =
              {[calls[i].existingVote EXCEPT !.vote_type = calls[i].voteType]}
         /\ Cardinality(votes') = Cardinality(votes)]_vars

C3_Witness ==
  \E i \in Calls :
    /\ VoteStepDone(i) /\ calls[i].voteRes = "ok" /\ NoOverlap(i)
    /\ calls[i].existingVote.id = 1 /\ calls[i].existingVote.vote_type = 1
    /\ calls[i].voteType = -1
    /\ votes = {[id |-> 1, user_id |-> calls[i].user, post_id |-> calls[i].postId, vote_type |-> -1]}

\* C4: in every reachable state the votes table holds at most one row per
\* (user, post), whatever the interleaving of handleVote invocations.
C4_OneRowPerUserPost ==
  \A u \in Users, p \in PostIds : Cardinality(RowsOf(votes, u, p)) <= 1

\* two overlapping invocations both saw no row; the second insert was rejected
C4_Witness ==
  \E i, j \in Calls :
    /\ i # j /\ SameTarget(i, j)
    /\ calls[i].existingVote = NoVote /\ calls[j].existingVote = NoVote
    /\ calls[i].voteRes = "ok" /\ calls[j].voteRes = "conflict"
    /\ Cardinality(RowsOf(votes, calls[i].user, calls[i].postId)) = 1

\* every invocation so far was made by one client, each after all requests of
\* the earlier ones had been answered
SequentialOneClient ==
  \A i, j \in Calls : calls[i].user = calls[j].user /\ calls[i].concurrent = {}

\* the karma request of invocation i has been answered
KarmaAnswered(i) == calls[i].karma \in {"ok", "check", "norow"}

\* C5 (as claimed): over completed, non-overlapping handleVote calls of one
\* client, every successful karma write stores the value that was stored right
\* before the write plus the delta of the clicked direction.
C5_KarmaWriteAddsDelta ==
  [][SequentialOneClient =>
       \A i \in Calls :
         (KarmaWriteStep(i) /\ calls'[i].karma = "ok") =>
           karma'[AuthorOf(calls[i].postId)] =
             karma[AuthorOf(calls[i].postId)] + karmaChange(calls[i].voteType)]_vars

\* the only invocations whose karma write was applied are i and j
OnlyKarmaWrites(i, j) == \A k \in Calls : calls[k].karma = "ok" => k \in {i, j}

\* C6: last write wins.  When two invocations by different users on posts of
\* one author computed their karma value from the same cached karma and both
\* writes were applied, the stored karma carries one delta only.
C6_LastWriteWins ==
  \A i, j \in Calls :
    (i # j /\ calls[i].user # calls[j].user
       /\ calls[i].karma = "ok" /\ calls[j].karma = "ok"
       /\ ClosurePost(calls[i]).author_id = ClosurePost(calls[j]).author_id
       /\ ClosurePost(calls[i]).total_karma = ClosurePost(calls[j]).total_karma
       /\ OnlyKarmaWrites(i, j)) =>
      LET a == ClosurePost(calls[i]).author_id
          s0 == ClosurePost(calls[i]).total_karma
      IN /\ karma[a] \in {s0 + karmaChange(calls[i].voteType), s0 + karmaChange(calls[j].voteType)}
         /\ karma[a] # s0 + karmaChange(calls[i].voteType) + karmaChange(calls[j].voteType)

\* both vote rows are written, both karma writes succeeded, one +10 is lost
C6_Witness ==
  \E i, j \in Calls :
    /\ i # j /\ calls[i].user # calls[j].user
    /\ calls[i].voteType = 1 /\ calls[j].voteType = 1
    /\ calls[i].voteRes = "ok" /\ calls[j].voteRes = "ok"
    /\ calls[i].karma = "ok" /\ calls[j].karma = "ok"
    /\ ClosurePost(calls[i]).total_karma = InitKarma
    /\ ClosurePost(calls[j]).total_karma = InitKarma
    /\ RowsOf(votes, calls[i].user, calls[i].postId) # {}
    /\ RowsOf(votes, calls[j].user, calls[j].postId) # {}
    /\ karma[AuthorOf(calls[i].postId)] = InitKarma + 10

\* i is an up-vote on a post without a vote and j the following up click that
\* removes it, not overlapping, all requests succeeding, both karma writes
\* applied and no other karma write applied (so the karma stored before the
\* first click is the initial one)
UpThenRemoval(i, j) ==
  /\ NextOnTarget(i, j)
  /\ calls[i].voteType = 1 /\ calls[j].voteType = 1
  /\ i \notin calls[j].concurrent
  /\ VoteStepDone(i) /\ VoteStepDone(j)
  /\ calls[i].existingVote = NoVote /\ calls[i].voteRes = "ok"
  /\ calls[j].existingVote # NoVote /\ calls[j].voteRes = "ok"
  /\ calls[i].karma = "ok" /\ calls[j].karma = "ok"
  /\ OnlyKarmaWrites(i, j)

\* C7: after an up-vote followed by its removal the author's karma is not back
\* at its value before the first click.
C7_RemovalDoesNotRestoreKarma ==
  \A i, j \in Calls :
    UpThenRemoval(i, j) => karma[AuthorOf(calls[i].postId)] # InitKarma

C7_Witness ==
  \E i, j \in Calls :
    /\ UpThenRemoval(i, j)
    /\ votes = {}
    /\ karma[AuthorOf(calls[i].postId)] # InitKarma

KarmaWriteFails(i) == KarmaWriteStep(i) /\ calls'[i].karma = "check"

\* C9: when the vote write succeeded and the karma write fails, the failing
\* step changes neither the votes table nor the stored karma nor any client
\* state, and the invocation issues no request afterwards.
C9_NoRollback ==
  [][\A i \in Calls :
       /\ (calls[i].voteRes = "ok" /\ KarmaWriteFails(i)) =>
            /\ votes' = votes
            /\ karma' = karma
            /\ posts' = posts /\ showAuthModal' = showAuthModal /\ loading' = loading
            /\ calls'[i].reqs = calls[i].reqs
       /\ (calls[i].voteRes = "ok" /\ calls[i].karma = "check") =>
            /\ calls'[i].reqs = calls[i].reqs
            /\ calls'[i].karma = calls[i].karma]_vars

\* the inserted row is there, the karma write was rejected, karma is unchanged
C9_Witness ==
  \E i \in Calls :
    /\ calls[i].voteRes = "ok" /\ calls[i].existingVote = NoVote
    /\ calls[i].karma = "check"
    /\ calls[i].fetch = "done"
    /\ Len(calls) = 1
    /\ RowsOf(votes, calls[i].user, calls[i].postId) # {}
    /\ karma[AuthorOf(calls[i].postId)] = InitKarma
    /\ ~showAuthModal[calls[i].user]

\* s is an initial segment of t
IsPrefix(s, t) == Len(s) <= Len(t) /\ \A n \in 1..Len(s) : s[n] = t[n]

\* C10 (as claimed): the requests of one invocation are issued in the order
\* look-up, vote mutation, karma update, list re-fetch.
C10_KarmaBeforeRefetch ==
  \A i \in Calls :
    IsPrefix(calls[i].reqs,
             <<"lookup", VoteBranch(calls[i].existingVote, calls[i].voteType),
               "karma", "fetchPosts">>)

\* C10 (amended): the requests of one invocation are issued in the order
\* look-up, vote mutation, list re-fetch, karma update.
C10_RefetchBeforeKarma ==
  \A i \in Calls :
    /\ IsPrefix(calls[i].reqs,
                <<"lookup", VoteBranch(calls[i].existingVote, calls[i].voteType),
                  "fetchPosts", "karma">>)
    /\ calls[i].pc = "lookup" => Len(calls[i].reqs) = 1
    /\ calls[i].pc = "write" => Len(calls[i].reqs) = 2
    /\ calls[i].pc = "after" => Len(calls[i].reqs) = 2 + Len(SpawnedRequests(calls[i]))

C10_Witness ==
  \E i \in Calls :
    /\ calls[i].reqs = <<"lookup", "insert", "fetchPosts", "karma">>
    /\ calls[i].fetch = "done" /\ calls[i].karma = "ok"

\* the number of occurrences of x in the sequence s
CountOf(s, x) == Cardinality({n \in 1..Len(s) : s[n] = x})

\* this step is the answer to the fetchPosts of invocation i
FetchPostsStep(i) == calls[i].fetch = "pending" /\ calls'[i].fetch = "done"

\* C11: the local post list changes only by being replaced with the result of a
\* completed fetchPosts query; the click, the answer to the vote mutation and
\* the answer to the karma update leave it alone; and an invocation has issued
\* exactly one fetchPosts once its vote step is over (none before).
C11_PostsOnlyByFetch ==
  /\ [](\A i \in Calls :
          CountOf(calls[i].reqs, "fetchPosts") = IF VoteStepDone(i) THEN 1 ELSE 0)
  /\ [][/\ posts' # posts =>
             \E i \in Calls :
               /\ FetchPostsStep(i)
               /\ posts' = [posts EXCEPT ![calls[i].user] = SelectPosts(karma)]
        /\ \A i \in Calls : (VoteWriteStep(i) \/ KarmaWriteStep(i)) => posts' = posts
        /\ \A i \in Calls : VoteWriteStep(i) => calls'[i].fetch = "pending"
        /\ Len(calls') > Len(calls) => posts' = posts]_vars

\* the karma write was applied first, the re-fetch answered afterwards and
\* replaced the list with one carrying the new karma
C11_Witness ==
  \E i \in Calls :
    /\ calls[i].fetch = "done" /\ calls[i].karma = "ok"
    /\ CountOf(calls[i].reqs, "fetchPosts") = 1
    /\ posts[calls[i].user] = SelectPosts(karma)
    /\ posts[calls[i].user] # posts[Guest]
    /\ karma[AuthorOf(calls[i].postId)] = InitKarma + 10

\* a double-click: the only two invocations so far are by one user on one
\* post in one direction, the second made while the first was in its vote
\* step, and both vote steps are over
DoubleClickDone ==
  /\ Len(calls) = 2
  /\ SameTarget(1, 2) /\ calls[1].voteType = calls[2].voteType
  /\ 1 \in calls[2].racing
  /\ VoteStepDone(1) /\ VoteStepDone(2)

\* C15: a double-click on a post without a prior vote is not serialized: either
\* both invocations saw no row and both sent an insert, exactly one of which the
\* uniqueness constraint rejected, leaving one row; or one of them saw the row
\* the other had inserted and deleted it, leaving no row.
C15_DoubleClickOutcomes ==
  DoubleClickDone =>
    LET rows == RowsOf(votes, calls[1].user, calls[1].postId)
        blind == {i \in Calls : calls[i].existingVote = NoVote}
    IN /\ blind # {}
       /\ blind = {1, 2} =>
            /\ {calls[1].voteRes, calls[2].voteRes} = {"ok", "conflict"}
            /\ Cardinality(rows) = 1
            /\ \A i \in Calls : calls[i].reqs[2] = "insert"
       /\ blind # {1, 2} =>
            /\ \A i \in Calls \ blind :
                 /\ calls[i].reqs[2] = "delete"
                 /\ calls[i].existingVote.user_id = calls[i].user
                 /\ calls[i].voteRes = "ok"
            /\ rows = {}

\* the second click saw the row the first had inserted and deleted it
C15_Witness ==
  /\ DoubleClickDone
  /\ calls[1].existingVote = NoVote /\ calls[1].voteRes = "ok"
  /\ calls[2].existingVote # NoVote /\ calls[2].reqs[2] = "delete"
  /\ calls[2].voteRes = "ok"
  /\ votes = {}

\* C18: the karma delta depends on the clicked direction only.  Every
\* invocation that completes its vote step, whatever the branch, runs the karma
\* update with the cached karma of the author + 10 for an up click and - 5 for a
\* down click, and an applied write stores exactly that value.
C18_DeltaByDirectionOnly ==
  /\ [](\A i \in Calls :
          /\ VoteStepDone(i) => calls[i].karma # "none"
          /\ calls[i].karma # "none" =>
               KarmaValue(calls[i]) =
                 ClosurePost(calls[i]).total_karma + (IF calls[i].voteType = 1 THEN 10 ELSE -5))
  /\ [][\A i \in Calls :
          (KarmaWriteStep(i) /\ calls'[i].karma = "ok") =>
            karma'[AuthorOf(calls[i].postId)] =
              ClosurePost(calls[i]).total_karma + (IF calls[i].voteType = 1 THEN 10 ELSE -5)]_vars

\* an up-vote and its removal, the second click made from a list that carried
\* the first + 10: the removal applied a further + 10
C18_Witness ==
  \E i, j \in Calls :
    /\ UpThenRemoval(i, j)
    /\ calls[j].reqs[2] = "delete"
    /\ ClosurePost(calls[j]).total_karma = InitKarma + 10
    /\ karma[AuthorOf(calls[j].postId)] = InitKarma + 20

\* C19 (as claimed): an invocation whose vote mutation was rejected by the
\* backend issues no karma write.
C19_NoKarmaAfterRejectedVote ==
  \A i \in Calls :
    calls[i].voteRes = "conflict" => calls[i].karma \in {"none", "skipped"}

JCalls == 1..Len(jcalls)

\* this step is the answer to the membership mutation of invocation i
MemberWriteStep(i) == jcalls[i].pc = "mutate" /\ jcalls'[i].pc # "mutate"

\* this step is the answer to the member_count update of invocation i
CountUpdateStep(i) == jcalls[i].pc = "update" /\ jcalls'[i].pc = "done"

\* no request of another joinCommunity was outstanding while invocation i ran
Alone(i) ==
  /\ jcalls[i].concurrent = {}
  /\ \A j \in JCalls : i \notin jcalls[j].concurrent

\* C12 (as claimed): an invocation of joinCommunity whose membership mutation
\* was rejected by the backend issues no update of communities.member_count.
C12_NoCountUpdateAfterRejectedMutation ==
  \A i \in JCalls :
    jcalls[i].mutRes = "conflict" => CountOf(jcalls[i].reqs, "update") = 0

\* C17 (as claimed): with no concurrent activity and no request answered with
\* an error, a call by a non-member inserts one membership row and sets
\* member_count to the stored value + 1, a call by a member deletes the row and
\* sets member_count to max(0, stored value - 1); and a join followed by a
\* leave restores the membership table and member_count.
C17_ToggleAdjustsCount ==
  /\ [][\A i \in JCalls :
          LET c == jcalls[i]
          IN /\ (MemberWriteStep(i) /\ Alone(i) /\ jcalls'[i].mutRes = "ok") =>
                  members' = IF c.existingMember = NoMember
                               THEN members \cup {[id |-> nextMemberId,
                                                    community_id |-> c.communityId,
                                                    user_id |-> c.user]}
                               ELSE members \ {c.existingMember}
             /\ (CountUpdateStep(i) /\ Alone(i) /\ c.mutRes = "ok"
                   /\ jcalls'[i].updRes # "check") =>
                  memberCount'[c.communityId] =
                    IF c.existingMember = NoMember
                      THEN memberCount[c.communityId] + 1
                      ELSE Max0(memberCount[c.communityId] - 1)]_vars
  /\ []((/\ Len(jcalls) = 2
         /\ jcalls[1].user = jcalls[2].user
         /\ jcalls[1].communityId = jcalls[2].communityId
         /\ Alone(1) /\ Alone(2)
         /\ jcalls[1].pc = "done" /\ jcalls[2].pc = "done"
         /\ jcalls[1].existingMember = NoMember /\ jcalls[2].existingMember # NoMember) =>
        /\ members = {[id |-> 1, community_id |-> r.id, user_id |-> r.owner_id] : r \in CommunitiesTable}
        /\ memberCount[jcalls[1].communityId] = InitMemberCount)

\* C20: without a session handleVote and joinCommunity only open the auth
\* modal: a step that changes showAuthModal sets it for the client without a
\* session and changes no table, no local list and no request record; and no
\* request is ever sent on behalf of that client.
C20_NoUserOnlyOpensModal ==
  /\ [](/\ \A i \in Calls : calls[i].user # Guest
        /\ \A i \in JCalls : jcalls[i].user # Guest
        /\ \A u \in Users : ~showAuthModal[u])
  /\ [][showAuthModal' # showAuthModal =>
          /\ showAuthModal' = [showAuthModal EXCEPT ![Guest] = TRUE]
          /\ votes' = votes /\ karma' = karma /\ members' = members
          /\ memberCount' = memberCount
          /\ posts' = posts /\ communities' = communities /\ loading' = loading
          /\ calls' = calls /\ jcalls' = jcalls
          /\ nextId' = nextId /\ nextMemberId' = nextMemberId]_vars

\* the modal is open for the client without a session while the tables and
\* its lists are those of the start and another client has joined since
C20_Witness ==
  /\ showAuthModal[Guest]
  /\ votes = {} /\ calls = << >>
  /\ karma = [u \in Users |-> InitKarma]
  /\ posts[Guest] = SelectPosts([u \in Users |-> InitKarma])
  /\ communities[Guest] = SelectCommunities([c \in CommunityIds |-> InitMemberCount],
                                                        [c \in CommunityIds |-> InitPostCount])
  /\ Len(jcalls) = 1 /\ jcalls[1].user # Guest /\ jcalls[1].pc = "done"

PCalls == 1..Len(pcalls)

\* this step is the answer to the post insert of submission i
PostInsertStep(i) == pcalls[i].pc = "insert" /\ pcalls'[i].pc # "insert"

\* handleSubmit of submission i returns in this step
SubmitEnds(i) == pcalls[i].pc # "done" /\ pcalls'[i].pc = "done"

\* a request of submission i awaited by handleSubmit is outstanding
Submitting(i) == pcalls[i].pc \in {"insert", "update"}

\* C13: handleSubmit sends the post_count update only after a successful insert
\* with a community selected.  When the insert returns an error the submission
\* ends there: no communities update, no onPostCreated (no re-fetch, the modal
\* stays open), the form keeps its contents and the error message is set.
\* loading is true exactly while a submission of the modal is awaited, so it
\* is false again after every outcome.
C13_PostCountOnlyAfterInsert ==
  /\ [](/\ \A i \in PCalls :
             LET c == pcalls[i]
             IN /\ CountOf(c.reqs, "update") > 0 =>
                     c.insRes = "ok" /\ c.form.community_id # ""
                /\ c.insRes = "check" =>
                     /\ c.reqs = <<"insert">>
                     /\ c.updRes = "none" /\ c.fetch = "none" /\ c.pc = "done"
        /\ \A u \in Users :
             modalLoading[u] <=> \E i \in PCalls : pcalls[i].user = u /\ Submitting(i))
  /\ [][\A i \in PCalls :
          LET u == pcalls[i].user
          IN /\ (PostInsertStep(i) /\ pcalls'[i].insRes # "ok") =>
                  /\ formData' = formData
                  /\ showCreatePostModal' = showCreatePostModal
                  /\ modalError'[u] # ""
                  /\ postCount' = postCount /\ createdPosts' = createdPosts
                  /\ posts' = posts
             /\ SubmitEnds(i) => ~modalLoading'[u]]_vars

\* a post for community c1 was rejected by the backend: the modal is still
\* open with the submitted contents and the message, nothing was written
C13_Witness ==
  \E i \in PCalls :
    LET u == pcalls[i].user
    IN /\ pcalls[i].insRes = "check" /\ pcalls[i].pc = "done"
       /\ pcalls[i].form.community_id = "c1"
       /\ formData[u] = pcalls[i].form
       /\ showCreatePostModal[u]
       /\ modalError[u] # "" /\ ~modalLoading[u]
       /\ createdPosts = {}
       /\ postCount = [c \in CommunityIds |-> InitPostCount]

\* the calls of one limiter that reached the backend in the window starting at t
SentInWindow(kind, t) ==
  {i \in 1..Len(acalls) :
     /\ acalls[i].kind = kind
     /\ t <= acalls[i].time /\ acalls[i].time < t + windowMs[kind]}

\* C14: within one page load, whatever the auth-state changes and re-renders in
\* between, at most 3 signUp calls in any 15-minute window, at most 5 signIn
\* calls in any 15-minute window and at most 3 resendVerification calls in any
\* 5-minute window reach the backend
C14_RateLimitHolds ==
  \A kind \in LimiterKinds, t \in Instants :
    Cardinality(SentInWindow(kind, t)) <= maxAttempts[kind]

\* a signUp step with the given arguments
SignUpStep(input) == signUp(input)

\* C16: when validateSignupData rejects the trimmed arguments, signUp returns
\* success = false, sends nothing to the backend and records no attempt in the
\* signup limiter; the error returned is the joined messages of the validation
\* whenever the validation is reached, that is when the limiter lets the call pass
C16_InvalidSignUpNotSubmitted ==
  [][\A input \in SignupInputs :
       LET errors == SignupErrors[input]
           valid == ValidAttempts(limiters.signup, clock, windowMs.signup)
       IN (SignUpStep(input) /\ errors # << >>) =>
            /\ lastResult'.success = FALSE
            /\ acalls' = acalls
            /\ authEvents' = authEvents
            /\ limiters'.signup = valid
            /\ canAttempt(limiters.signup, clock, maxAttempts.signup, windowMs.signup) =>
                 lastResult'.error = join(errors, ". ")]_vars

\* signUp was called with a weak password and a reserved username: the two
\* messages came back joined, nothing was sent and no attempt is recorded
C16_Witness ==
  \E input \in SignupInputs :
    LET errors == SignupErrors[input]
    IN /\ Len(errors) = 2
       /\ toLowerCase(trim(input.username)) \in reservedUsernames
       /\ lastResult = [success |-> FALSE, error |-> join(errors, ". ")]
       /\ acalls = << >>
       /\ limiters.signup = << >>

\* this step is the answer to the post_count update of submission i
PostCountUpdateStep(i) == pcalls[i].pc = "update" /\ pcalls'[i].pc = "done"

\* the caller passes the update policies of the profile / of the community row
OwnsProfile(u, postId) == u \in {AuthorOf(postId), AdminUser}
OwnsCommunity(u, communityId) == u \in {OwnerOf(communityId), AdminUser}

\* C21: under the row-level-security policies a client write to another
\* user's row has no effect.  The karma write changes total_karma only when the
\* voter is the post's author or the admin; the member_count and post_count
\* writes change the community row only when the caller is its owner or the
\* admin.  For every other caller the counters keep their stored value, while
\* the vote, membership or post row the same handler inserted is written.
C21_ForeignWritesHaveNoEffect ==
  [][/\ \A i \in Calls :
          LET c == calls[i]
          IN /\ KarmaWriteStep(i) =>
                  /\ karma' # karma => OwnsProfile(c.user, c.postId)
                  /\ \A u \in Users : u # AuthorOf(c.postId) => karma'[u] = karma[u]
                  /\ (OwnsProfile(c.user, c.postId) /\ karma_positive(KarmaValue(c))) =>
                       karma'[AuthorOf(c.postId)] = KarmaValue(c)
             /\ (VoteWriteStep(i) /\ ~OwnsProfile(c.user, c.postId)) =>
                  /\ karma' = karma
                  /\ (c.existingVote = NoVote /\ RowsOf(votes, c.user, c.postId) = {}) =>
                       \E r \in votes' \ votes :
                         r.user_id = c.user /\ r.post_id = c.postId /\ r.vote_type = c.voteType
     /\ \A i \in JCalls :
          LET c == jcalls[i]
          IN /\ CountUpdateStep(i) =>
                  /\ memberCount' # memberCount => OwnsCommunity(c.user, c.communityId)
                  /\ postCount' = postCount
                  /\ (OwnsCommunity(c.user, c.communityId)
                        /\ member_count_positive(MemberCountValue(c))) =>
                       memberCount'[c.communityId] = MemberCountValue(c)
             /\ (MemberWriteStep(i) /\ ~OwnsCommunity(c.user, c.communityId)) =>
                  /\ memberCount' = memberCount
                  /\ (c.existingMember = NoMember
                        /\ UniqueCommunityUser(members, c.communityId, c.user)) =>
                       \E r \in members' \ members :
                         r.user_id = c.user /\ r.community_id = c.communityId
     /\ \A i \in PCalls :
          LET c == pcalls[i]
          IN /\ PostCountUpdateStep(i) =>
                  /\ postCount' # postCount => OwnsCommunity(c.user, c.form.community_id)
                  /\ memberCount' = memberCount
                  /\ (OwnsCommunity(c.user, c.form.community_id)
                        /\ post_count_positive(PostCountValue(c))) =>
                       postCount'[c.form.community_id] = PostCountValue(c)
             /\ (PostInsertStep(i) /\ title_length(c.form.text)) =>
                  /\ postCount' = postCount
                  /\ \E r \in createdPosts' \ createdPosts :
                       r.author_id = c.user /\ r.community_id = c.form.community_id]_vars

\* bob, who is neither the author of p1 nor the admin, voted on p1: his vote row
\* is stored, the karma update matched no row and alice's karma is unchanged
C21_Witness ==
  \E i \in Calls :
    /\ calls[i].user = "bob" /\ calls[i].postId = "p1"
    /\ calls[i].voteRes = "ok"
    /\ calls[i].karma = "norow"
    /\ RowsOf(votes, "bob", "p1") # {}
    /\ karma = [u \in Users |-> InitKarma]

\* the community_members rows of one community
MembersOf(communityId) == {r \in members : r.community_id = communityId}

\* no request of any joinCommunity invocation is outstanding
JoinQuiescent == \A i \in JCalls : ~JoinInFlight(jcalls[i])

\* C22 (as claimed): in every quiescent state each community's stored
\* member_count equals the number of its community_members rows
C22_MemberCountMatchesRows ==
  JoinQuiescent =>
    \A cid \in CommunityIds : memberCount[cid] = Cardinality(MembersOf(cid))

\* the behaviour so far is k successful post creations into community cid by
\* one user, one after the other, everything answered: each insert and each
\* post_count update was accepted, each re-fetch of the posts has arrived
CreationsOnly(u, cid) ==
  \A i \in PCalls :
    /\ pcalls[i].user = u /\ pcalls[i].form.community_id = cid
    /\ pcalls[i].pc = "done" /\ pcalls[i].fetch = "done"
    /\ pcalls[i].insRes = "ok" /\ pcalls[i].updRes = "ok"

\* C23 (as claimed): after k successful post creations into one community from
\* one client with no other activity, the stored post_count is its initial
\* value + k
C23_PostCountAfterCreations ==
  \A u \in Users, cid \in CommunityIds :
    CreationsOnly(u, cid) => postCount[cid] = InitPostCount + Len(pcalls)

\* C24 (as claimed): once getSession() has answered and no fetchProfile is in
\* flight, the state of AuthProvider is consistent: profile is non-null only if
\* user is non-null and profile.id = user.id, and loading is false
C24_SessionStateConsistent ==
  (sessionInit = "done" /\ PendingFetches = 0) =>
    /\ profile # NoProfile => (authUser # NoSession /\ profile = authUser)
    /\ ~authLoading

\* C25 (as claimed): at every instant, for every limiter, getRemainingTime is
\* positive if and only if canAttempt returns false
C25_RemainingTimeAgreesWithCanAttempt ==
  \A kind \in LimiterKinds :
    getRemainingTime(limiters[kind], clock, maxAttempts[kind], windowMs[kind]) > 0
      <=> ~canAttempt(limiters[kind], clock, maxAttempts[kind], windowMs[kind])

\* C26 (as claimed): a community name that passes the validation of
\* CreateCommunityModal yields, through sanitizeInput and generateSlug, a slug
\* that satisfies community_slug_format and community_slug_length
C26_SlugSatisfiesConstraints ==
  submitted.op = "createCommunity" =>
    community_slug_format(submitted.slug) /\ community_slug_length(submitted.slug)

\* the text is normalized: none of the removed characters, at most 1000
\* characters, no whitespace at either end
Normalized(t) ==
  /\ ~TestClass(t, {"<", ">", "\"", "'", "&"})
  /\ Len(t) <= SanitizeLimit
  /\ t # << >> => (t[1] \notin Whitespace /\ t[Len(t)] \notin Whitespace)

\* C27 (as claimed): the result of sanitizeInput is normalized and sanitizeInput
\* applied to it returns it unchanged
C27_SanitizeNormalizedIdempotent ==
  submitted.op = "sanitizeInput" =>
    Normalized(submitted.text) /\ sanitizeInput(submitted.text) = submitted.text

\* the account and the profile row that signUp call i has created
AccountOf(i) == {a \in authAccounts : a.id = i}
ProfileOf(i) == {r \in profileRows : r.id = i}

\* C28 (as claimed): when a signUp call has returned, either the auth account
\* and its profile row both exist and success = true was returned, or neither
\* exists and success = false was returned
C28_AccountAndProfileTogether ==
  \A i \in 1..Len(signups) :
    signups[i].step \in {"refused", "done"} =>
      \/ signups[i].success /\ AccountOf(i) # {} /\ ProfileOf(i) # {}
      \/ ~signups[i].success /\ AccountOf(i) = {} /\ ProfileOf(i) = {}

====
